---- MODULE Spec2Model ----
(***************************************************************************)
(* Model of the muzik terminal runtime: the App orchestrator loop          *)
(* (src/src/app.rs), the LayoutManager (src/src/layouts.rs) and the        *)
(* registered components (src/src/components/*.rs).                        *)
(***************************************************************************)
EXTENDS Integers, Sequences, FiniteSets, TLC

VARIABLES
  pc,                    \* position of App::run: "start", "event", "drain", "done", "panic"
  config,                \* Config.keybindings loaded by App::new
  should_quit,           \* App.should_quit
  should_suspend,        \* App.should_suspend
  focus_buffer,          \* App.focus_buffer
  last_tick_key_events,  \* App.last_tick_key_events
  layout_store,          \* LayoutManager.layout_store
  screen,                \* LayoutManager.screen
  queue,                 \* the unbounded action channel (action_tx / action_rx)
  delivered,             \* the last event: the actions its translation sent and the
                         \* components whose handle_events ran for it
  drawn,                 \* the last draw pass: <<component, rect>> of every draw call
                         \* and the errors it sent
  lm_op,                 \* last LayoutManager call made: "new", "init", "update", "lookup"
  lm_hist,               \* screens passed to the last (up to three) init/update calls
  lm_result,             \* argument and result of the last get_component_layout call
  comps,                 \* private state of the registered components
  chans,                 \* one-shot channels and tasks spawned by SearchResult::update
  overflow_checks,       \* whether the build panics on integer overflow (debug profile)
  list_clamps,           \* whether the ratatui of the build corrects a list selection
                         \* that is out of range when it renders the list
  handled,               \* the actions taken from the queue in the current drain pass,
                         \* each with whether it reached the components' update
  db                     \* the tables behind Database.connection and the last call made

vars == <<pc, config, should_quit, should_suspend, focus_buffer,
          last_tick_key_events, layout_store, screen, queue, delivered,
          drawn, lm_op, lm_hist, lm_result, comps, chans, overflow_checks,
          list_clamps, handled, db>>

\* Option<T>: None is the empty sequence, Some(x) the one-element sequence
None == <<>>
Some(x) == <<x>>
IsSome(o) == o # <<>>
Unwrap(o) == o[1]

----------------------------------------------------------------------------
(* Modes, scenes and focus (src/src/layouts.rs)                            *)

Modes == {"Home", "Download", "Manager", "Global"}

HomeIntro == "Home(Intro)"
DownloadSearchBar == "Download(SearchBar)"
DownloadSearchResult == "Download(SearchResult)"
DownloadSearchResultDetails == "Download(SearchResultDetails)"
ManagerSongList == "Manager(SongList)"
InputBar == "InputBar"
TitleBar == "TitleBar"

Scenes == {HomeIntro, DownloadSearchBar, DownloadSearchResult,
           DownloadSearchResultDetails, ManagerSongList, InputBar, TitleBar}

Focus(m, s) == [mode |-> m, scene |-> s]

----------------------------------------------------------------------------
(* ratatui Rect and Layout::split, for constraint lists that the area can  *)
(* satisfy exactly (one Min at most, percentages that divide evenly).      *)

Rect(x, y, w, h) == [x |-> x, y |-> y, width |-> w, height |-> h]

RectDefault == Rect(0, 0, 0, 0)

Length(n) == [kind |-> "Length", v |-> n]
Min(n) == [kind |-> "Min", v |-> n]
Percentage(n) == [kind |-> "Percentage", v |-> n]

\* the size a constraint asks for on its own, out of `total` cells
BaseSize(c, total) ==
  IF c.kind = "Percentage" THEN (total * c.v) \div 100 ELSE c.v

RECURSIVE SumBase(_, _)
SumBase(cs, total) ==
  IF cs = <<>> THEN 0 ELSE BaseSize(Head(cs), total) + SumBase(Tail(cs), total)

\* the size each segment gets: Length and Percentage get what they ask for,
\* the Min segment grows to take the cells left over
SegmentSize(cs, total, i) ==
  LET spare == total - SumBase(cs, total)
  IN  IF cs[i].kind = "Min" /\ spare > 0
        THEN cs[i].v + spare
        ELSE BaseSize(cs[i], total)

RECURSIVE SegmentStart(_, _, _)
SegmentStart(cs, total, i) ==
  IF i = 1 THEN 0
  ELSE SegmentStart(cs, total, i - 1) + SegmentSize(cs, total, i - 1)

SplitVertical(cs, area) ==
  [i \in 1..Len(cs) |->
     Rect(area.x, area.y + SegmentStart(cs, area.height, i),
          area.width, SegmentSize(cs, area.height, i))]

SplitHorizontal(cs, area) ==
  [i \in 1..Len(cs) |->
     Rect(area.x + SegmentStart(cs, area.width, i), area.y,
          SegmentSize(cs, area.width, i), area.height)]

----------------------------------------------------------------------------
(* LayoutManager (src/src/layouts.rs)                                      *)

\* HashMap::insert on the Scene -> Rect map
MapInsert(store, k, v) ==
  [s \in (DOMAIN store) \cup {k} |-> IF s = k THEN v ELSE store[s]]

EmptyStore == [s \in {} |-> RectDefault]

\* LayoutManager::new
LayoutManagerNew == [layout_store |-> EmptyStore, screen |-> RectDefault]

\* a variant of build_download_layout that halves the whole area it is given
build_download_layout_whole(store, area) ==
  LET horizontal_layout == SplitHorizontal(<<Percentage(50), Percentage(50)>>, area)
      s1 == MapInsert(store, DownloadSearchBar, area)
      s2 == MapInsert(s1, DownloadSearchResult, horizontal_layout[1])
  IN  MapInsert(s2, DownloadSearchResultDetails, horizontal_layout[2])

build_download_layout(store, area) ==
  LET vertical_layout == SplitVertical(<<Length(3), Min(1)>>, area)
      horizontal_layout ==
        SplitHorizontal(<<Percentage(50), Percentage(50)>>, vertical_layout[2])
      s1 == MapInsert(store, DownloadSearchBar, vertical_layout[1])
      s2 == MapInsert(s1, DownloadSearchResult, horizontal_layout[1])
  IN  MapInsert(s2, DownloadSearchResultDetails, horizontal_layout[2])

build_layouts(lm) ==
  LET layout == SplitVertical(<<Length(1), Min(1), Length(3)>>, lm.screen)
      s1 == MapInsert(lm.layout_store, TitleBar, layout[1])
      s2 == MapInsert(s1, InputBar, layout[3])
      main_render_area == layout[2]
      s3 == MapInsert(s2, HomeIntro, main_render_area)
  IN  [lm EXCEPT !.layout_store = build_download_layout(s3, main_render_area)]

\* a variant of update that rebuilds before it stores the new screen
update_stale(lm, scr) == [build_layouts(lm) EXCEPT !.screen = scr]

\* LayoutManager::update
update(lm, scr) == build_layouts([lm EXCEPT !.screen = scr])

\* LayoutManager::init
init(lm, scr) == update(lm, scr)

\* a variant of get_component_layout that falls back to the default Rect
get_component_layout_default(store, layout_key) ==
  IF layout_key \in DOMAIN store
    THEN [ok |-> TRUE, rect |-> store[layout_key]]
    ELSE [ok |-> TRUE, rect |-> RectDefault]

\* LayoutManager::get_component_layout: Ok(rect) or Err
get_component_layout(store, layout_key) ==
  IF layout_key \in DOMAIN store
    THEN [ok |-> TRUE, rect |-> store[layout_key]]
    ELSE [ok |-> FALSE, err |-> "Layout key {layout_key} does not exists"]

----------------------------------------------------------------------------
(* Actions (src/src/action.rs)                                             *)

Act(t) == [type |-> t]
Tick == Act("Tick")
Render == Act("Render")
Resize(w, h) == [type |-> "Resize", w |-> w, h |-> h]
Suspend == Act("Suspend")
Resume == Act("Resume")
Quit == Act("Quit")
Help == Act("Help")
Error(msg) == [type |-> "Error", msg |-> msg]
FocusSwitch(f) == [type |-> "FocusSwitch", focus |-> f]
FocusBack == Act("FocusBack")
InputModeOn(name, initial) ==
  [type |-> "InputModeOn", input_name |-> name, initial_value |-> initial]
InputModeOff(name, buffer) ==
  [type |-> "InputModeOff", input_name |-> name, buffer |-> buffer]
DownloadShowSearchDetails(v) == [type |-> "DownloadShowSearchDetails", video |-> v]

\* InputOut::default()
InputOutDefault == InputModeOff(None, <<>>)

YoutubeSearch == "youtube_search"

----------------------------------------------------------------------------
(* Key events (crossterm KeyEvent, kind Press)                             *)

\* every key event here is a press: the kind is not a field, and the test
\* key.kind == Press of InputArea (general.rs:89) always succeeds
Key(code, ch, mods) == [code |-> code, ch |-> ch, modifiers |-> mods]
Char(c) == Key("Char", c, "NONE")
KeyEnter == Key("Enter", "", "NONE")
KeyEsc == Key("Esc", "", "NONE")
KeyLeft == Key("Left", "", "NONE")
KeyRight == Key("Right", "", "NONE")
KeyBackspace == Key("Backspace", "", "NONE")
KeyDown == Key("Down", "", "NONE")
KeyUp == Key("Up", "", "NONE")
KeyTab == Key("Tab", "", "NONE")
KeyF1 == Key("F(1)", "", "NONE")
KeyF2 == Key("F(2)", "", "NONE")
CtrlS == Key("Char", "s", "CONTROL")

\* tui::Event
EvKeyOf(k) == [type |-> "Key", key |-> k]

----------------------------------------------------------------------------
(* Component registry (src/src/app.rs, App::new) and the constant          *)
(* scene()/mode() of each component                                        *)

Component(n, m, s) == [name |-> n, mode |-> m, scene |-> s]

Intro == Component("Intro", "Home", HomeIntro)
FpsCounter == Component("FpsCounter", "Global", TitleBar)
TitleBarC == Component("TitleBar", "Global", TitleBar)
InputArea == Component("InputArea", "Global", InputBar)
SearchBar == Component("SearchBar", "Download", DownloadSearchBar)
SearchResult == Component("SearchResult", "Download", DownloadSearchResult)
SearchResultDetails ==
  Component("SearchResultDetails", "Download", DownloadSearchResultDetails)
SongList == Component("SongList", "Manager", ManagerSongList)

components == <<Intro, FpsCounter, TitleBarC, InputArea, SearchBar,
                SearchResult, SearchResultDetails, SongList>>

first_focus == Focus("Home", HomeIntro)

\* Component::is_focused
is_focused(c, focus) == focus.scene = c.scene

\* state of the components after App::new (every struct is Default)
CompsInit ==
  [input |-> [input_name |-> None, input_buffer |-> <<>>, position |-> 0],
   search_bar |-> [search_query |-> <<>>],
   search_result |-> [search_query |-> <<>>, search_rx |-> None,
                      search_result_videos |-> None, selected |-> None],
   details |-> [selected_search_result |-> None]]

\* result of a component call: new component state, returned action,
\* channels (a call may spawn a task) and whether the call panicked
Ret(cs, a, ch, p) == [comps |-> cs, action |-> a, chans |-> ch, panic |-> p]

----------------------------------------------------------------------------
(* InputArea (src/src/components/general.rs)                               *)

\* a String is modelled as the sequence of its chars; indices into it and
\* its length count UTF-8 bytes, as in Rust
\* U+00E9 takes two bytes in UTF-8
WideChars == {"U+00E9"}

\* char::len_utf8
CharLen(c) == IF c \in WideChars THEN 2 ELSE 1

\* String::len
RECURSIVE StrLen(_)
StrLen(buf) == IF buf = <<>> THEN 0 ELSE CharLen(Head(buf)) + StrLen(Tail(buf))

\* str::is_char_boundary
IsCharBoundary(buf, idx) ==
  \E k \in 0..Len(buf) : StrLen(SubSeq(buf, 1, k)) = idx

\* the number of chars that lie before byte index idx, a char boundary
CharIndex(buf, idx) ==
  CHOOSE k \in 0..Len(buf) : StrLen(SubSeq(buf, 1, k)) = idx

\* String::insert(idx, c) panics unless idx is a char boundary
StrInsertPanics(buf, pos) == ~IsCharBoundary(buf, pos)

StrInsert(buf, pos, c) ==
  LET k == CharIndex(buf, pos)
  IN  SubSeq(buf, 1, k) \o <<c>> \o SubSeq(buf, k + 1, Len(buf))

\* String::remove(idx) panics unless a char starts at byte index idx
StrRemovePanics(buf, idx) == ~(IsCharBoundary(buf, idx) /\ idx < StrLen(buf))

\* String::remove(idx): drops the char that starts at byte index idx
StrRemove(buf, idx) ==
  LET k == CharIndex(buf, idx)
  IN  SubSeq(buf, 1, k) \o SubSeq(buf, k + 2, Len(buf))

\* String::pop: drops the last char, if any
StrPop(buf) == SubSeq(buf, 1, Len(buf) - 1)

\* whether the key makes handle_key_events panic inside a String call
InputArea_key_panics(inp, key) ==
  \/ key.code = "Char" /\ StrInsertPanics(inp.input_buffer, inp.position)
  \/ /\ key.code = "Backspace"
     /\ inp.position >= 1
     /\ inp.position # StrLen(inp.input_buffer)
     /\ StrRemovePanics(inp.input_buffer, inp.position - 1)

\* [st, action, panic]
InputArea_handle_key_events(inp, key, focus) ==
  IF is_focused(InputArea, focus) /\ key.modifiers \in {"SHIFT", "NONE"}
    THEN IF InputArea_key_panics(inp, key)
           THEN [st |-> inp, action |-> None, panic |-> TRUE]
           ELSE
         CASE key.code = "Char" ->
                [st |-> [inp EXCEPT
                           !.input_buffer = StrInsert(inp.input_buffer, inp.position, key.ch),
                           !.position = inp.position + 1],
                 action |-> None, panic |-> FALSE]
           [] key.code = "Enter" ->
                [st |-> inp,
                 action |-> Some(InputModeOff(inp.input_name, inp.input_buffer)),
                 panic |-> FALSE]
           [] key.code = "Right" ->
                [st |-> IF inp.position < StrLen(inp.input_buffer)
                          THEN [inp EXCEPT !.position = inp.position + 1]
                          ELSE inp,
                 action |-> None, panic |-> FALSE]
           [] key.code = "Left" ->
                [st |-> IF inp.position > 0
                          THEN [inp EXCEPT !.position = inp.position - 1]
                          ELSE inp,
                 action |-> None, panic |-> FALSE]
           [] key.code = "Backspace" ->
                [st |-> IF inp.position >= 1
                          THEN [inp EXCEPT
                                  !.input_buffer =
                                     IF inp.position = StrLen(inp.input_buffer)
                                       THEN StrPop(inp.input_buffer)
                                       ELSE StrRemove(inp.input_buffer, inp.position - 1),
                                  !.position = inp.position - 1]
                          ELSE inp,
                 action |-> None, panic |-> FALSE]
           [] key.code = "Esc" ->
                [st |-> inp, action |-> Some(InputOutDefault), panic |-> FALSE]
           [] OTHER -> [st |-> inp, action |-> None, panic |-> FALSE]
    ELSE [st |-> inp, action |-> None, panic |-> FALSE]

\* a variant of update that appends the initial value to the text it holds
InputArea_update_appends(inp, action) ==
  IF action.type = "InputModeOn"
    THEN IF IsSome(action.initial_value)
           THEN [inp EXCEPT !.input_name = Some(action.input_name),
                            !.input_buffer = @ \o Unwrap(action.initial_value),
                            !.position = StrLen(inp.input_buffer
                                                \o Unwrap(action.initial_value))]
           ELSE [inp EXCEPT !.input_name = Some(action.input_name)]
    ELSE inp

InputArea_update(inp, action) ==
  IF action.type = "InputModeOn"
    THEN IF IsSome(action.initial_value)
           THEN [inp EXCEPT !.input_name = Some(action.input_name),
                            !.input_buffer = Unwrap(action.initial_value),
                            !.position = StrLen(Unwrap(action.initial_value))]
           ELSE [inp EXCEPT !.input_name = Some(action.input_name),
                            !.input_buffer = <<>>,
                            !.position = 0]
    ELSE inp

----------------------------------------------------------------------------
(* Intro (src/src/components/home.rs)                                      *)

\* a variant of handle_key_events that also answers Esc, with FocusBack
Intro_handle_key_events_back(key, focus) ==
  IF focus.mode = Intro.mode /\ focus.scene = Intro.scene
    THEN CASE key.code = "Enter" ->
                Some(FocusSwitch(Focus("Download", DownloadSearchResult)))
           [] key.code = "Esc" -> Some(FocusBack)
           [] OTHER -> None
    ELSE None

Intro_handle_key_events(key, focus) ==
  IF focus.mode = Intro.mode /\ focus.scene = Intro.scene /\ key.code = "Enter"
    THEN Some(FocusSwitch(Focus("Download", DownloadSearchResult)))
    ELSE None

----------------------------------------------------------------------------
(* SearchBar (src/src/components/download.rs)                              *)

\* a variant of handle_key_events that hands the key over as initial value
SearchBar_handle_key_events_seeded(key, focus) ==
  IF focus.mode = SearchBar.mode /\ key.modifiers = "NONE"
     /\ key.code = "Char" /\ key.ch = "s"
    THEN Some(InputModeOn(YoutubeSearch, Some(<<key.ch>>)))
    ELSE None

SearchBar_handle_key_events(key, focus) ==
  IF focus.mode = SearchBar.mode /\ key.modifiers = "NONE"
     /\ key.code = "Char" /\ key.ch = "s"
    THEN Some(InputModeOn(YoutubeSearch, None))
    ELSE None

SearchBar_update(sb, action) ==
  IF action.type = "InputModeOff" /\ IsSome(action.input_name)
     /\ Unwrap(action.input_name) = YoutubeSearch
    THEN [sb EXCEPT !.search_query = action.buffer]
    ELSE sb

----------------------------------------------------------------------------
(* SearchResult and SearchResultDetails (src/src/components/download.rs)   *)

\* stand-in for usize::MAX, the value 0 - 1 wraps to without overflow checks
UsizeMax == 2147483647

\* a search outcome: Ok(playlist entries) or Err
SearchOk(entries) == [ok |-> TRUE, entries |-> entries]
SearchErr == [ok |-> FALSE, entries |-> <<>>]

\* a SingleVideo of the search provider
Video(id) == [id |-> id, title |-> Some(id)]

\* impl From<SingleVideo> for YoutubeVideo
ToYoutubeVideo(v) == [id |-> v.id, title |-> v.title]

\* tokio::sync::oneshot::channel() with the task spawned to fill it
NewChan == [value |-> None, rx_dropped |-> FALSE, task |-> "running"]

\* a variant of try_recv that never reports a closed channel
try_recv_never_closed(ch) == IF IsSome(ch.value) THEN "Ok" ELSE "Empty"

\* oneshot::Receiver::try_recv: "Ok" with the value, "Empty" or "Closed"
try_recv(ch) ==
  IF IsSome(ch.value) THEN "Ok"
  ELSE IF ch.task = "running" THEN "Empty"
  ELSE "Closed"

\* usize subtraction len - 1
LenMinusOne(len) == IF len = 0 THEN UsizeMax ELSE len - 1

\* whether len - 1 overflows and the build checks for it
SubOverflows(sr, checks) ==
  /\ checks
  /\ IsSome(sr.search_result_videos)
  /\ IsSome(sr.selected)
  /\ Len(Unwrap(sr.search_result_videos)) = 0

list_next(sr) ==
  IF IsSome(sr.search_result_videos) /\ IsSome(sr.selected)
    THEN LET index == Unwrap(sr.selected)
             len == Len(Unwrap(sr.search_result_videos))
         IN  IF index >= LenMinusOne(len)
               THEN [sr EXCEPT !.selected = Some(0)]
               ELSE [sr EXCEPT !.selected = Some(index + 1)]
    ELSE [sr EXCEPT !.selected = Some(0)]

previous_list(sr) ==
  IF IsSome(sr.search_result_videos) /\ IsSome(sr.selected)
    THEN LET index == Unwrap(sr.selected)
             len == Len(Unwrap(sr.search_result_videos))
         IN  IF index = 0
               THEN [sr EXCEPT !.selected = Some(LenMinusOne(len))]
               ELSE [sr EXCEPT !.selected = Some(index - 1)]
    ELSE [sr EXCEPT !.selected = Some(0)]

\* a variant of unselect_list that leaves the selection as it is
unselect_list_keeps(sr) == sr

unselect_list(sr) == [sr EXCEPT !.selected = None]

\* SearchResult::draw (lines 146-157): a list that is held is rendered with
\* render_stateful_widget, which is handed the list state to write to. The
\* List widget of the newer ratatui versions corrects the selection there: on
\* an empty list it clears it, beyond the last item it moves it to the last
\* item; the older versions leave the selection alone. clamps tells which of
\* the two the build has. The lists here are shorter than the panel, so the
\* scroll offset, the other field of the list state, stays 0.
SearchResult_draw(sr, clamps) ==
  IF clamps /\ IsSome(sr.search_result_videos) /\ IsSome(sr.selected)
    THEN LET len == Len(Unwrap(sr.search_result_videos))
         IN  IF len = 0
               THEN [sr EXCEPT !.selected = None]
               ELSE IF Unwrap(sr.selected) >= len
                      THEN [sr EXCEPT !.selected = Some(len - 1)]
                      ELSE sr
    ELSE sr

get_current_selected_list_youtube_video(sr) ==
  IF IsSome(sr.selected) /\ IsSome(sr.search_result_videos)
    THEN LET index == Unwrap(sr.selected)
             videos == Unwrap(sr.search_result_videos)
         IN  IF index < Len(videos)
               THEN Some(ToYoutubeVideo(videos[index + 1]))
               ELSE None
    ELSE None

\* [st, action, panic]
SearchResult_handle_key_events(sr, key, focus, checks) ==
  IF is_focused(SearchResult, focus) /\ key.modifiers = "NONE"
    THEN CASE (key.code = "Char" /\ key.ch = "j") \/ key.code = "Down" ->
                IF SubOverflows(sr, checks)
                  THEN [st |-> sr, action |-> None, panic |-> TRUE]
                  ELSE [st |-> list_next(sr),
                        action |-> Some(DownloadShowSearchDetails(
                           get_current_selected_list_youtube_video(list_next(sr)))),
                        panic |-> FALSE]
           [] (key.code = "Char" /\ key.ch = "k") \/ key.code = "Up" ->
                IF SubOverflows(sr, checks) /\ Unwrap(sr.selected) = 0
                  THEN [st |-> sr, action |-> None, panic |-> TRUE]
                  ELSE [st |-> previous_list(sr),
                        action |-> Some(DownloadShowSearchDetails(
                           get_current_selected_list_youtube_video(previous_list(sr)))),
                        panic |-> FALSE]
           [] key.code = "Esc" ->
                IF IsSome(sr.selected)
                  THEN [st |-> unselect_list(sr),
                        action |-> Some(DownloadShowSearchDetails(None)),
                        panic |-> FALSE]
                  ELSE [st |-> sr, action |-> Some(FocusBack), panic |-> FALSE]
           [] OTHER -> [st |-> sr, action |-> None, panic |-> FALSE]
    ELSE [st |-> sr, action |-> None, panic |-> FALSE]

\* a variant of the Tick arm that adopts only the first entry of a result
SearchResult_poll_first(sr, ch) ==
  IF IsSome(sr.search_rx)
    THEN LET i == Unwrap(sr.search_rx)
             got == try_recv(ch[i])
         IN  CASE got = "Ok" ->
                    LET result == Unwrap(ch[i].value)
                        taken == [ch EXCEPT ![i].value = None]
                    IN  IF result.ok
                          THEN [st |-> [sr EXCEPT !.search_result_videos =
                                          Some(SubSeq(result.entries, 1, 1))],
                                chans |-> taken, action |-> None]
                          ELSE [st |-> sr, chans |-> taken,
                                action |-> Some(Error("youtube search failed"))]
               [] got = "Empty" -> [st |-> sr, chans |-> ch, action |-> None]
               [] OTHER ->
                    [st |-> [sr EXCEPT !.search_rx = None],
                     chans |-> [ch EXCEPT ![i].rx_dropped = TRUE], action |-> None]
    ELSE [st |-> sr, chans |-> ch, action |-> None]

\* a variant of the Tick arm that gives the search up when its result is not
\* ready yet
SearchResult_poll_gives_up(sr, ch) ==
  IF IsSome(sr.search_rx)
    THEN LET i == Unwrap(sr.search_rx)
             got == try_recv(ch[i])
         IN  CASE got = "Ok" ->
                    LET result == Unwrap(ch[i].value)
                        taken == [ch EXCEPT ![i].value = None]
                    IN  IF result.ok
                          THEN [st |-> [sr EXCEPT !.search_result_videos =
                                                    Some(result.entries)],
                                chans |-> taken, action |-> None]
                          ELSE [st |-> sr, chans |-> taken,
                                action |-> Some(Error("youtube search failed"))]
               [] OTHER ->
                    [st |-> [sr EXCEPT !.search_rx = None],
                     chans |-> [ch EXCEPT ![i].rx_dropped = TRUE], action |-> None]
    ELSE [st |-> sr, chans |-> ch, action |-> None]

\* the Action::Tick arm of SearchResult::update (lines 169-192): the pending
\* receiver, if any, is polled once; [st, chans, action]
SearchResult_poll(sr, ch) ==
  IF IsSome(sr.search_rx)
    THEN LET i == Unwrap(sr.search_rx)
             got == try_recv(ch[i])
         IN  CASE got = "Ok" ->
                    LET result == Unwrap(ch[i].value)
                        taken == [ch EXCEPT ![i].value = None]
                    IN  IF result.ok
                          THEN [st |-> [sr EXCEPT !.search_result_videos =
                                                    Some(result.entries)],
                                chans |-> taken, action |-> None]
                          ELSE [st |-> sr, chans |-> taken,
                                action |-> Some(Error("youtube search failed"))]
               [] got = "Empty" -> [st |-> sr, chans |-> ch, action |-> None]
               [] OTHER ->
                    \* Closed: the receiver is dropped with the handle
                    [st |-> [sr EXCEPT !.search_rx = None],
                     chans |-> [ch EXCEPT ![i].rx_dropped = TRUE], action |-> None]
    ELSE [st |-> sr, chans |-> ch, action |-> None]

\* a variant of the InputModeOff arm that starts a search for every name
SearchResult_submit_any_name(sr, ch, action) ==
  IF IsSome(action.input_name)
    THEN LET dropped ==
               IF IsSome(sr.search_rx)
                 THEN [ch EXCEPT ![Unwrap(sr.search_rx)].rx_dropped = TRUE]
                 ELSE ch
         IN  [st |-> [sr EXCEPT !.search_query = action.buffer,
                                !.search_rx = Some(Len(ch) + 1)],
              chans |-> Append(dropped, NewChan),
              action |-> None]
    ELSE [st |-> sr, chans |-> ch, action |-> None]

\* a variant of the InputModeOff arm that keeps the handle of a search
\* still pending
SearchResult_submit_keeps_pending(sr, ch, action) ==
  IF IsSome(action.input_name) /\ Unwrap(action.input_name) = YoutubeSearch
    THEN IF IsSome(sr.search_rx)
           THEN [st |-> [sr EXCEPT !.search_query = action.buffer],
                 chans |-> Append(ch, [NewChan EXCEPT !.rx_dropped = TRUE]),
                 action |-> None]
           ELSE [st |-> [sr EXCEPT !.search_query = action.buffer,
                                   !.search_rx = Some(Len(ch) + 1)],
                 chans |-> Append(ch, NewChan),
                 action |-> None]
    ELSE [st |-> sr, chans |-> ch, action |-> None]

\* the Action::InputModeOff arm of SearchResult::update (lines 193-209): a
\* result named "youtube_search" stores the query, spawns the search task and
\* replaces the receiver (the one replaced is dropped); [st, chans, action]
SearchResult_submit(sr, ch, action) ==
  IF IsSome(action.input_name) /\ Unwrap(action.input_name) = YoutubeSearch
    THEN LET dropped ==
               IF IsSome(sr.search_rx)
                 THEN [ch EXCEPT ![Unwrap(sr.search_rx)].rx_dropped = TRUE]
                 ELSE ch
         IN  [st |-> [sr EXCEPT !.search_query = action.buffer,
                                !.search_rx = Some(Len(ch) + 1)],
              chans |-> Append(dropped, NewChan),
              action |-> None]
    ELSE [st |-> sr, chans |-> ch, action |-> None]

\* [st, chans, action]
SearchResult_update(sr, ch, action) ==
  CASE action.type = "Tick" -> SearchResult_poll(sr, ch)
    [] action.type = "InputModeOff" -> SearchResult_submit(sr, ch, action)
    [] OTHER -> [st |-> sr, chans |-> ch, action |-> None]

SearchResultDetails_update(d, action) ==
  IF action.type = "DownloadShowSearchDetails"
    THEN [d EXCEPT !.selected_search_result = action.video]
    ELSE d

----------------------------------------------------------------------------
(* Component trait dispatch (src/src/components.rs)                        *)

\* Component::handle_events of the i-th registered component: a key event
\* goes to handle_key_events, every other event returns no action
handle_events(i, e, focus, cs, checks) ==
  IF e.type # "Key" THEN Ret(cs, None, <<>>, FALSE)
  ELSE CASE components[i] = Intro ->
              Ret(cs, Intro_handle_key_events(e.key, focus), <<>>, FALSE)
         [] components[i] = InputArea ->
              LET r == InputArea_handle_key_events(cs.input, e.key, focus)
              IN  Ret([cs EXCEPT !.input = r.st], r.action, <<>>, r.panic)
         [] components[i] = SearchBar ->
              Ret(cs, SearchBar_handle_key_events(e.key, focus), <<>>, FALSE)
         [] components[i] = SearchResult ->
              LET r == SearchResult_handle_key_events(cs.search_result, e.key, focus, checks)
              IN  Ret([cs EXCEPT !.search_result = r.st], r.action, <<>>, r.panic)
         [] OTHER -> Ret(cs, None, <<>>, FALSE)

\* Component::update of the i-th registered component
component_update(i, action, cs, ch) ==
  CASE components[i] = InputArea ->
         Ret([cs EXCEPT !.input = InputArea_update(cs.input, action)], None, ch, FALSE)
    [] components[i] = SearchBar ->
         Ret([cs EXCEPT !.search_bar = SearchBar_update(cs.search_bar, action)],
             None, ch, FALSE)
    [] components[i] = SearchResult ->
         LET r == SearchResult_update(cs.search_result, ch, action)
         IN  Ret([cs EXCEPT !.search_result = r.st], r.action, r.chans, FALSE)
    [] components[i] = SearchResultDetails ->
         Ret([cs EXCEPT !.details = SearchResultDetails_update(cs.details, action)],
             None, ch, FALSE)
    [] OTHER -> Ret(cs, None, ch, FALSE)

----------------------------------------------------------------------------
(* Database (src/src/database.rs) over the tables of src/src/schema.rs     *)

\* Result<T>: Ok(v) or Err
DbOk(v) == [ok |-> TRUE, v |-> v]
DbErr == [ok |-> FALSE, v |-> 0]

NoCall == [op |-> "none", arg |-> <<>>, res |-> DbErr]

\* the database after the migrations: every table empty. A table with an id
\* column is the sequence of its rows in insertion order; an association
\* table is the set of its rows, its primary key being the whole row
DatabaseNew ==
  [song |-> <<>>, artist |-> <<>>, album |-> <<>>, genre |-> <<>>,
   songs_artists |-> {}, last |-> NoCall]

Ids(rows) == {rows[i].id : i \in 1..Len(rows)}

\* the id the engine gives a row inserted without one: one more than the
\* largest id in the table
NextId(rows) ==
  IF rows = <<>> THEN 1 ELSE (CHOOSE m \in Ids(rows) : \A j \in Ids(rows) : j <= m) + 1

\* table.filter(name.eq(n)).select(id).get_result(): the id of the first
\* row with that name, or NotFound
FindIdByName(rows, n) ==
  LET hits == {i \in 1..Len(rows) : rows[i].name = n}
  IN  IF hits = {} THEN None
      ELSE Some(rows[CHOOSE i \in hits : \A j \in hits : i <= j].id)

\* insert_into(table).values(..).returning(id)
InsertNamed(rows, n) == Append(rows, [id |-> NextId(rows), name |-> n])

\* Database::insert_song: [db, res]
insert_song(d, title) ==
  [db |-> [d EXCEPT !.song = InsertNamed(d.song, title)],
   res |-> DbOk(NextId(d.song))]

\* a variant of insert_artist that inserts without looking the name up
insert_artist_always(d, n) ==
  [db |-> [d EXCEPT !.artist = InsertNamed(d.artist, n)],
   res |-> DbOk(NextId(d.artist))]

\* Database::insert_artist: [db, res]
insert_artist(d, n) ==
  LET found == FindIdByName(d.artist, n)
  IN  IF IsSome(found)
        THEN [db |-> d, res |-> DbOk(Unwrap(found))]
        ELSE [db |-> [d EXCEPT !.artist = InsertNamed(d.artist, n)],
              res |-> DbOk(NextId(d.artist))]

\* Database::insert_album: [db, res]
insert_album(d, n) ==
  LET found == FindIdByName(d.album, n)
  IN  IF IsSome(found)
        THEN [db |-> d, res |-> DbOk(Unwrap(found))]
        ELSE [db |-> [d EXCEPT !.album = InsertNamed(d.album, n)],
              res |-> DbOk(NextId(d.album))]

\* Database::insert_genre: [db, res]
insert_genre(d, n) ==
  LET found == FindIdByName(d.genre, n)
  IN  IF IsSome(found)
        THEN [db |-> d, res |-> DbOk(Unwrap(found))]
        ELSE [db |-> [d EXCEPT !.genre = InsertNamed(d.genre, n)],
              res |-> DbOk(NextId(d.genre))]

SongArtist(song_id, artist_id) == [song_id |-> song_id, artist_id |-> artist_id]

\* a variant of insert_song_artist on a table without a primary key
insert_song_artist_unchecked(d, new_song_artist) ==
  [db |-> [d EXCEPT !.songs_artists = @ \cup {new_song_artist}], res |-> DbOk(0)]

\* Database::insert_song_artist: the insert fails on a row whose primary key
\* (song_id, artist_id) is in the table; [db, res]
insert_song_artist(d, new_song_artist) ==
  IF new_song_artist \in d.songs_artists
    THEN [db |-> d, res |-> DbErr]
    ELSE [db |-> [d EXCEPT !.songs_artists = @ \cup {new_song_artist}],
          res |-> DbOk(0)]

----------------------------------------------------------------------------
(* Key-binding tables (Config.keybindings): Mode -> (key sequence -> Action) *)

Binding(keys, action) == [keys |-> keys, action |-> action]

\* HashMap::get on one mode's table, by exact key sequence
KeymapGet(keymap, keys) ==
  LET hits == {b \in keymap : b.keys = keys}
  IN  IF hits = {} THEN None ELSE Some((CHOOSE b \in hits : TRUE).action)

\* a binding table in which Global and the focused mode bind the same keys
\* (Tab, F1 and F2), and which binds focus-changing actions
CfgLoop ==
  [m \in {"Global", "Home", "Manager"} |->
     CASE m = "Global" ->
            {Binding(<<KeyTab>>, Suspend), Binding(<<KeyF1>>, Render),
             Binding(<<KeyF2>>, FocusBack)}
       [] m = "Home" ->
            {Binding(<<KeyTab>>, Help),
             Binding(<<KeyF1>>, FocusSwitch(Focus("Manager", ManagerSongList))),
             Binding(<<KeyF2>>, Render)}
       [] OTHER -> {Binding(<<KeyTab>>, Quit), Binding(<<KeyF1>>, Help)}]

Configs == {CfgLoop}

\* a binding table without any binding
CfgNone == [m \in {} |-> {}]

\* a binding table with one two-key sequence in Home mode and no single-key
\* binding of its keys
CfgSeq == [m \in {"Home"} |-> {Binding(<<Char("g"), Char("g")>>, Help)}]

\* a binding table that leads to the search bar (F1 in Home) and binds, in
\* Global and in Download, keys that are also used to edit the input text
CfgInput ==
  [m \in {"Global", "Home", "Download"} |->
     CASE m = "Global" -> {Binding(<<KeyLeft>>, Help)}
       [] m = "Home" ->
            {Binding(<<KeyF1>>, FocusSwitch(Focus("Download", DownloadSearchBar)))}
       [] OTHER -> {Binding(<<KeyRight>>, Act("Refresh"))}]

----------------------------------------------------------------------------
(* App (src/src/app.rs)                                                    *)

Last(seq) == seq[Len(seq)]

\* Vec::pop: a no-op on an empty vector
VecPop(seq) == IF seq = <<>> THEN seq ELSE SubSeq(seq, 1, Len(seq) - 1)

\* a variant of the binding resolution that looks the key up on its own
\* and never buffers it
ResolveKeyNoBuffer(keybindings, focus, key, keys) ==
  LET global == IF "Global" \in DOMAIN keybindings
                  THEN KeymapGet(keybindings["Global"], <<key>>)
                  ELSE None
  IN  IF focus.mode \in DOMAIN keybindings
        THEN [sent |-> global \o KeymapGet(keybindings[focus.mode], <<key>>),
              keys |-> keys]
        ELSE [sent |-> global, keys |-> keys]

\* binding resolution for a key pressed outside input mode:
\* the actions sent and the new rolling key buffer
ResolveKey(keybindings, focus, key, keys) ==
  LET global == IF "Global" \in DOMAIN keybindings
                  THEN KeymapGet(keybindings["Global"], <<key>>)
                  ELSE None
      keymap == keybindings[focus.mode]
      single == KeymapGet(keymap, <<key>>)
      pushed == Append(keys, key)
  IN  IF focus.mode \in DOMAIN keybindings
        THEN IF IsSome(single)
               THEN [sent |-> global \o single, keys |-> keys]
               ELSE [sent |-> global \o KeymapGet(keymap, pushed), keys |-> pushed]
        ELSE [sent |-> global, keys |-> keys]

\* a variant of the translation that resolves bindings in input mode too
TranslateAlways(e, keybindings, focus, keys) ==
  CASE e.type = "Quit" -> [sent |-> <<Quit>>, keys |-> keys]
    [] e.type = "Tick" -> [sent |-> <<Tick>>, keys |-> keys]
    [] e.type = "Render" -> [sent |-> <<Render>>, keys |-> keys]
    [] e.type = "Resize" -> [sent |-> <<Resize(e.w, e.h)>>, keys |-> keys]
    [] e.type = "Key" -> ResolveKey(keybindings, focus, e.key, keys)
    [] OTHER -> [sent |-> <<>>, keys |-> keys]

\* the immediate translation of a terminal event into actions
Translate(e, keybindings, focus, keys) ==
  CASE e.type = "Quit" -> [sent |-> <<Quit>>, keys |-> keys]
    [] e.type = "Tick" -> [sent |-> <<Tick>>, keys |-> keys]
    [] e.type = "Render" -> [sent |-> <<Render>>, keys |-> keys]
    [] e.type = "Resize" -> [sent |-> <<Resize(e.w, e.h)>>, keys |-> keys]
    [] e.type = "Key" ->
         IF focus.scene # InputBar
           THEN ResolveKey(keybindings, focus, e.key, keys)
           ELSE [sent |-> <<>>, keys |-> keys]
    [] OTHER -> [sent |-> <<>>, keys |-> keys]

\* whether the event is handed to a component's handle_events
Receives(c, current_focus) ==
  IF current_focus.scene = InputBar THEN c.scene = InputBar ELSE TRUE

\* the loop over the registry that hands the event to handle_events,
\* from component i on; acc = [comps, sent, delivered, panic]
RECURSIVE Deliver(_, _, _, _, _)
Deliver(i, e, current_focus, checks, acc) ==
  IF i > Len(components) \/ acc.panic THEN acc
  ELSE IF Receives(components[i], current_focus)
    THEN LET r == handle_events(i, e, current_focus, acc.comps, checks)
         IN  Deliver(i + 1, e, current_focus, checks,
                     [comps |-> r.comps,
                      sent |-> acc.sent \o r.action,
                      delivered |-> acc.delivered \cup {i},
                      panic |-> r.panic])
    ELSE Deliver(i + 1, e, current_focus, checks, acc)

\* the loop that forwards a handled action to every component's update,
\* from component i on; acc = [comps, sent, chans]
RECURSIVE Forward(_, _, _)
Forward(i, action, acc) ==
  IF i > Len(components) THEN acc
  ELSE LET r == component_update(i, action, acc.comps, acc.chans)
       IN  Forward(i + 1, action,
                   [comps |-> r.comps, sent |-> acc.sent \o r.action, chans |-> r.chans])

\* a variant of the Render draw pass without the mode filter
RECURSIVE RenderPassUnfiltered(_, _, _, _)
RenderPassUnfiltered(i, current_focus, store, acc) ==
  IF i > Len(components) THEN acc
  ELSE LET c == components[i]
           layout == get_component_layout(store, c.scene)
       IN  IF layout.ok
             THEN RenderPassUnfiltered(i + 1, current_focus, store,
                    [acc EXCEPT !.calls = Append(@, <<i, layout.rect>>)])
             ELSE RenderPassUnfiltered(i + 1, current_focus, store,
                    [acc EXCEPT !.sent = Append(@, Error("Failed to get layout"))])

\* the draw pass of Action::Render, from component i on;
\* acc = [calls, sent]
RECURSIVE RenderPass(_, _, _, _)
RenderPass(i, current_focus, store, acc) ==
  IF i > Len(components) THEN acc
  ELSE LET c == components[i]
           layout == get_component_layout(store, c.scene)
       IN  IF c.mode = current_focus.mode \/ c.mode = "Global"
             THEN IF layout.ok
                    THEN RenderPass(i + 1, current_focus, store,
                           [acc EXCEPT !.calls = Append(@, <<i, layout.rect>>)])
                    ELSE RenderPass(i + 1, current_focus, store,
                           [acc EXCEPT !.sent = Append(@, Error("Failed to get layout"))])
             ELSE RenderPass(i + 1, current_focus, store, acc)

\* the draw pass of Action::Resize: every component, on the whole frame
ResizePass(frame) ==
  [calls |-> [i \in 1..Len(components) |-> <<i, frame>>], sent |-> <<>>]

\* the components after the draw calls of a pass: draw takes &mut self, and
\* SearchResult's is the one draw that writes to its component
DrawPass(cs, calls, clamps) ==
  IF \E n \in 1..Len(calls) : components[calls[n][1]] = SearchResult
    THEN [cs EXCEPT !.search_result = SearchResult_draw(@, clamps)]
    ELSE cs

NoDelivery == [event |-> None, focus |-> None, bound |-> <<>>, to |-> {}]
NoDraw == [pass |-> "none", focus |-> None, calls |-> <<>>, errors |-> <<>>]
NoLookup == [scene |-> "none", res |-> [ok |-> FALSE, err |-> "none"]]

----------------------------------------------------------------------------
(* Bounds and inputs of the model                                          *)

\* longest text typed into the input bar
MaxLen == 1
\* most keys pressed between two ticks
MaxKeys == 1
\* most searches submitted
MaxSearches == 1
\* most searches submitted in the search scenario
MaxSubmits == 2
\* most keys pressed between two ticks in the key-sequence scenario
MaxSeqKeys == 3
\* most chars the input text holds in the input scenarios
MaxText == 1

\* terminal sizes (even widths, tall enough for every fixed strip, and for
\* the top padding (area.height / 2) - 2 of Intro::draw, home.rs:66, which
\* underflows on an area less than 4 rows high)
Screens == {Rect(0, 0, 80, 24), Rect(0, 0, 40, 12), Rect(0, 0, 100, 30),
            Rect(0, 0, 120, 40)}
\* size of the terminal at startup, and the size a Resize event carries
LoopScreens == {Rect(0, 0, 80, 24)}
\* sizes the terminal has by the time a Resize action is handled
Terminals == {Rect(0, 0, 80, 24), Rect(0, 0, 120, 40)}

LoopKeys == {KeyEnter, KeyEsc, Char("s"), KeyTab, KeyF1, KeyF2}

SeqKeys == {Char("g"), Char("h"), Char("j")}

SearchKeys == {KeyEnter, KeyEsc, Char("s")}

\* outcomes of a search task in the search scenario
SubmitOutcomes == {SearchOk(<<Video("v1"), Video("v2"), Video("v3")>>),
                   SearchOk(<<Video("v3"), Video("v1")>>),
                   SearchErr}

\* outcome of a search task in the loop scenario: the search fails, which is
\* where the Error action of a Tick comes from; the searches that succeed
\* are those of the search and of the list scenario
SearchOutcomes == {SearchErr}

----------------------------------------------------------------------------
(* State after App::new                                                    *)

\* checks: whether the build panics on integer overflow; clamps: whether its
\* ratatui corrects a list selection that is out of range
InitBuild(cfg, checks, clamps) ==
  /\ pc = "start"
  /\ config = cfg
  /\ should_quit = FALSE
  /\ should_suspend = FALSE
  /\ focus_buffer = <<first_focus>>
  /\ last_tick_key_events = <<>>
  /\ layout_store = LayoutManagerNew.layout_store
  /\ screen = LayoutManagerNew.screen
  /\ queue = <<>>
  /\ delivered = NoDelivery
  /\ drawn = NoDraw
  /\ lm_op = "new"
  /\ lm_hist = <<>>
  /\ lm_result = NoLookup
  /\ comps = CompsInit
  /\ chans = <<>>
  /\ overflow_checks = checks
  /\ list_clamps = clamps
  /\ handled = <<>>
  /\ db = DatabaseNew

\* the scenarios that start here press no key that selects a list item, so
\* neither property of the build shows in them
InitWith(cfg) == InitBuild(cfg, TRUE, FALSE)

Init == \E cfg \in Configs : InitWith(cfg)

lm_vars == <<lm_op, lm_hist, lm_result>>
app_flags == <<should_quit, should_suspend>>
lm_state == <<layout_store, screen>>

----------------------------------------------------------------------------
(* App::run: start-up and the event half of one loop iteration             *)

\* lines 84-100: the components are initialised and the layout built
RunStart(size) ==
  /\ pc = "start"
  /\ layout_store' = init([layout_store |-> layout_store, screen |-> screen], size).layout_store
  /\ screen' = init([layout_store |-> layout_store, screen |-> screen], size).screen
  /\ pc' = "event"
  /\ UNCHANGED <<config, db, app_flags, focus_buffer, last_tick_key_events, queue,
                 delivered, drawn, lm_vars, comps, chans, overflow_checks, list_clamps, handled>>

\* lines 104-161: one terminal event is translated and handed to the components
Event(e) ==
  /\ pc = "event"
  /\ IF focus_buffer = <<>>
       THEN \* get_focused panics: at line 111 for a key, at line 141 otherwise
            /\ pc' = "panic"
            /\ queue' = IF e.type = "Key" THEN queue
                        ELSE queue \o Translate(e, config, first_focus, <<>>).sent
            /\ UNCHANGED <<last_tick_key_events, comps, delivered>>
       ELSE LET current_focus == Last(focus_buffer)
                t == Translate(e, config, current_focus, last_tick_key_events)
                d == Deliver(1, e, current_focus, overflow_checks,
                             [comps |-> comps, sent |-> <<>>, delivered |-> {},
                              panic |-> FALSE])
            IN  /\ queue' = queue \o t.sent \o d.sent
                /\ last_tick_key_events' = t.keys
                /\ comps' = d.comps
                /\ delivered' = [event |-> Some(e), focus |-> Some(current_focus),
                                 bound |-> t.sent, to |-> d.delivered]
                /\ pc' = IF d.panic THEN "panic" ELSE "drain"
  /\ UNCHANGED <<config, db, app_flags, focus_buffer, lm_state, drawn, lm_vars,
                 chans, overflow_checks, list_clamps, handled>>

InInputMode == focus_buffer # <<>> /\ Last(focus_buffer).scene = InputBar

\* the inputs the model feeds: typed text, buffered keys and searches are bounded
KeyAllowed(k) ==
  /\ (InInputMode /\ k.code = "Char") => Len(comps.input.input_buffer) < MaxLen
  /\ (InInputMode /\ k.code = "Enter") => Len(chans) < MaxSearches
  /\ ~InInputMode => Len(last_tick_key_events) < MaxKeys

EvQuit == Event([type |-> "Quit"])
EvTick == Event([type |-> "Tick"])
EvRender == Event([type |-> "Render"])
EvMouse == Event([type |-> "Mouse"])
EvResize == \E size \in LoopScreens :
              Event([type |-> "Resize", w |-> size.width, h |-> size.height])
EvKey == \E k \in LoopKeys : KeyAllowed(k) /\ Event(EvKeyOf(k))

----------------------------------------------------------------------------
(* App::run: the drain pass, one action per step (lines 163-231)           *)

Taking(t) == pc = "drain" /\ queue # <<>> /\ Head(queue).type = t

\* a variant of the forwarding step that puts the new actions ahead of the
\* ones already waiting
ForwardFromFront(cs, app_sent) ==
  LET f == Forward(1, Head(queue), [comps |-> cs, sent |-> <<>>, chans |-> chans])
  IN  /\ comps' = f.comps
      /\ chans' = f.chans
      /\ queue' = app_sent \o f.sent \o Tail(queue)
      /\ handled' = Append(handled, [action |-> Head(queue), forwarded |-> TRUE])

\* lines 225-230: the action is forwarded to every component's update;
\* cs are the components as the app handler left them, app_sent the actions
\* it sent before that
ForwardFrom(cs, app_sent) ==
  LET f == Forward(1, Head(queue), [comps |-> cs, sent |-> <<>>, chans |-> chans])
  IN  /\ comps' = f.comps
      /\ chans' = f.chans
      /\ queue' = Tail(queue) \o app_sent \o f.sent
      /\ handled' = Append(handled, [action |-> Head(queue), forwarded |-> TRUE])

\* the forwarding step after an app handler that touches no component
ForwardToComponents(app_sent) == ForwardFrom(comps, app_sent)

\* the thread panics inside the app handler: the action is consumed, nothing forwarded
PanicInHandler ==
  /\ pc' = "panic"
  /\ queue' = Tail(queue)
  /\ handled' = Append(handled, [action |-> Head(queue), forwarded |-> FALSE])
  /\ UNCHANGED <<comps, chans>>

HandleTick ==
  /\ Taking("Tick")
  /\ last_tick_key_events' = <<>>
  /\ ForwardToComponents(<<>>)
  /\ UNCHANGED <<pc, config, db, app_flags, focus_buffer, lm_state, delivered, drawn,
                 lm_vars, overflow_checks, list_clamps>>

HandleQuit ==
  /\ Taking("Quit")
  /\ should_quit' = TRUE
  /\ ForwardToComponents(<<>>)
  /\ UNCHANGED <<pc, config, db, should_suspend, focus_buffer, last_tick_key_events,
                 lm_state, delivered, drawn, lm_vars, overflow_checks, list_clamps>>

HandleSuspend ==
  /\ Taking("Suspend")
  /\ should_suspend' = TRUE
  /\ ForwardToComponents(<<>>)
  /\ UNCHANGED <<pc, config, db, should_quit, focus_buffer, last_tick_key_events,
                 lm_state, delivered, drawn, lm_vars, overflow_checks, list_clamps>>

\* a variant of the Resume arm that leaves the flag as it is
HandleResumeKeepsFlag ==
  /\ Taking("Resume")
  /\ should_suspend' = should_suspend
  /\ ForwardToComponents(<<>>)
  /\ UNCHANGED <<pc, config, db, should_quit, focus_buffer, last_tick_key_events,
                 lm_state, delivered, drawn, lm_vars, overflow_checks, list_clamps>>

HandleResume ==
  /\ Taking("Resume")
  /\ should_suspend' = FALSE
  /\ ForwardToComponents(<<>>)
  /\ UNCHANGED <<pc, config, db, should_quit, focus_buffer, last_tick_key_events,
                 lm_state, delivered, drawn, lm_vars, overflow_checks, list_clamps>>

\* lines 176-188. tui.resize(Rect(0, 0, w, h)) sets the viewport from the
\* action; the layout is then rebuilt from tui.size(), the size the terminal
\* has when it is asked, which is not the action's when the terminal has been
\* resized again since the event; the draw that follows resizes the viewport
\* to the terminal before it hands out the frame, so f.size() is that size too
HandleResize ==
  /\ Taking("Resize")
  /\ \E size \in Terminals :
       LET lm == update([layout_store |-> layout_store, screen |-> screen], size)
       IN  /\ layout_store' = lm.layout_store
           /\ screen' = lm.screen
           /\ IF focus_buffer = <<>>
                THEN PanicInHandler /\ UNCHANGED drawn
                ELSE /\ drawn' = [pass |-> "Resize", focus |-> Some(Last(focus_buffer)),
                                  calls |-> ResizePass(size).calls,
                                  errors |-> ResizePass(size).sent]
                     /\ ForwardFrom(DrawPass(comps, ResizePass(size).calls, list_clamps),
                                    ResizePass(size).sent)
                     /\ UNCHANGED pc
  /\ UNCHANGED <<config, db, app_flags, focus_buffer, last_tick_key_events, delivered,
                 lm_vars, overflow_checks, list_clamps>>

HandleRender ==
  /\ Taking("Render")
  /\ IF focus_buffer = <<>>
       THEN PanicInHandler /\ UNCHANGED drawn
       ELSE LET current_focus == Last(focus_buffer)
                pass == RenderPass(1, current_focus, layout_store,
                                   [calls |-> <<>>, sent |-> <<>>])
            IN  /\ drawn' = [pass |-> "Render", focus |-> Some(current_focus),
                             calls |-> pass.calls, errors |-> pass.sent]
                /\ ForwardFrom(DrawPass(comps, pass.calls, list_clamps), pass.sent)
                /\ UNCHANGED pc
  /\ UNCHANGED <<config, db, app_flags, focus_buffer, last_tick_key_events, lm_state,
                 delivered, lm_vars, overflow_checks, list_clamps>>

\* a variant of the InputModeOn arm that pushes the input bar in Global mode
HandleInputModeOnGlobal ==
  /\ Taking("InputModeOn")
  /\ IF focus_buffer = <<>>
       THEN PanicInHandler /\ UNCHANGED focus_buffer
       ELSE /\ focus_buffer' = Append(focus_buffer, Focus("Global", InputBar))
            /\ ForwardToComponents(<<>>)
            /\ UNCHANGED pc
  /\ UNCHANGED <<config, db, app_flags, last_tick_key_events, lm_state, delivered,
                 drawn, lm_vars, overflow_checks, list_clamps>>

HandleInputModeOn ==
  /\ Taking("InputModeOn")
  /\ IF focus_buffer = <<>>
       THEN PanicInHandler /\ UNCHANGED focus_buffer
       ELSE /\ focus_buffer' = Append(focus_buffer,
                                      Focus(Last(focus_buffer).mode, InputBar))
            /\ ForwardToComponents(<<>>)
            /\ UNCHANGED pc
  /\ UNCHANGED <<config, db, app_flags, last_tick_key_events, lm_state, delivered,
                 drawn, lm_vars, overflow_checks, list_clamps>>

HandleInputModeOff ==
  /\ Taking("InputModeOff")
  /\ focus_buffer' = VecPop(focus_buffer)
  /\ ForwardToComponents(<<>>)
  /\ UNCHANGED <<pc, config, db, app_flags, last_tick_key_events, lm_state, delivered,
                 drawn, lm_vars, overflow_checks, list_clamps>>

HandleFocusSwitch ==
  /\ Taking("FocusSwitch")
  /\ focus_buffer' = Append(focus_buffer, Head(queue).focus)
  /\ ForwardToComponents(<<>>)
  /\ UNCHANGED <<pc, config, db, app_flags, last_tick_key_events, lm_state, delivered,
                 drawn, lm_vars, overflow_checks, list_clamps>>

HandleFocusBack ==
  /\ Taking("FocusBack")
  /\ focus_buffer' = VecPop(focus_buffer)
  /\ ForwardToComponents(<<>>)
  /\ UNCHANGED <<pc, config, db, app_flags, last_tick_key_events, lm_state, delivered,
                 drawn, lm_vars, overflow_checks, list_clamps>>

\* a variant of the Error arm that ends the loop
HandleErrorQuits ==
  /\ Taking("Error")
  /\ should_quit' = TRUE
  /\ ForwardToComponents(<<>>)
  /\ UNCHANGED <<pc, config, db, should_suspend, focus_buffer, last_tick_key_events,
                 lm_state, delivered, drawn, lm_vars, overflow_checks, list_clamps>>

\* a variant of the Error arm that sends the error again
HandleErrorRetries ==
  /\ Taking("Error")
  /\ ForwardToComponents(<<Head(queue)>>)
  /\ UNCHANGED <<pc, config, db, app_flags, focus_buffer, last_tick_key_events,
                 lm_state, delivered, drawn, lm_vars, overflow_checks, list_clamps>>

\* Action::Error is logged
HandleError ==
  /\ Taking("Error")
  /\ ForwardToComponents(<<>>)
  /\ UNCHANGED <<pc, config, db, app_flags, focus_buffer, last_tick_key_events,
                 lm_state, delivered, drawn, lm_vars, overflow_checks, list_clamps>>

\* every other action (the `_ => {}` arm)
HandleOther ==
  /\ pc = "drain" /\ queue # <<>>
  /\ Head(queue).type \in {"Help", "Refresh", "DownloadShowSearchDetails",
                           "DownloadSearchYoutube", "DownloadSearchToDetails"}
  /\ ForwardToComponents(<<>>)
  /\ UNCHANGED <<pc, config, db, app_flags, focus_buffer, last_tick_key_events,
                 lm_state, delivered, drawn, lm_vars, overflow_checks, list_clamps>>

\* a variant of the end of the iteration that tests should_quit first
EndIterationQuitFirst ==
  /\ pc = "drain" /\ queue = <<>>
  /\ IF should_quit
       THEN queue' = queue /\ pc' = "done"
       ELSE IF should_suspend
         THEN queue' = <<Resume>> /\ pc' = "event"
         ELSE queue' = queue /\ pc' = "event"
  /\ delivered' = NoDelivery
  /\ drawn' = NoDraw
  /\ handled' = <<>>
  /\ UNCHANGED <<config, db, app_flags, focus_buffer, last_tick_key_events, lm_state,
                 lm_vars, comps, chans, overflow_checks, list_clamps>>

\* lines 232-242: the queue is empty; suspend, quit or go round again
EndIteration ==
  /\ pc = "drain" /\ queue = <<>>
  /\ IF should_suspend
       THEN queue' = <<Resume>> /\ pc' = "event"
       ELSE IF should_quit
         THEN queue' = queue /\ pc' = "done"
         ELSE queue' = queue /\ pc' = "event"
  /\ delivered' = NoDelivery
  /\ drawn' = NoDraw
  /\ handled' = <<>>
  /\ UNCHANGED <<config, db, app_flags, focus_buffer, last_tick_key_events, lm_state,
                 lm_vars, comps, chans, overflow_checks, list_clamps>>

\* the spawned search task finishes and sends its result (download.rs 201-205)
TaskComplete(i, result) ==
  /\ pc = "event"
  /\ i \in 1..Len(chans)
  /\ chans[i].task = "running"
  /\ chans' = IF chans[i].rx_dropped
                THEN [chans EXCEPT ![i].task = "panicked"]
                ELSE [chans EXCEPT ![i].task = "done", ![i].value = Some(result)]
  /\ UNCHANGED <<pc, config, db, app_flags, focus_buffer, last_tick_key_events,
                 lm_state, queue, delivered, drawn, lm_vars, comps, overflow_checks, list_clamps,
                 handled>>

SearchDone == \E i \in 1..MaxSearches : \E r \in SearchOutcomes : TaskComplete(i, r)

Start == \E size \in LoopScreens : RunStart(size)

Next ==
  \/ Start
  \/ EvQuit \/ EvTick \/ EvRender \/ EvMouse \/ EvResize \/ EvKey
  \/ HandleTick \/ HandleQuit \/ HandleSuspend \/ HandleResume
  \/ HandleResize \/ HandleRender
  \/ HandleInputModeOn \/ HandleInputModeOff
  \/ HandleFocusSwitch \/ HandleFocusBack
  \/ HandleError \/ HandleOther
  \/ EndIteration
  \/ SearchDone

Spec == Init /\ [][Next]_vars

\* the Tick or the Render event has just been taken from the event source
TickArrived == delivered.event = Some([type |-> "Tick"])
RenderArrived == delivered.event = Some([type |-> "Render"])

\* the loop has left its body: it returned or the thread panicked
LoopEnded == pc \in {"done", "panic"}

\* the loop keeps running: the event source is an infinite sequence of events
\* (the loop does not wait for one for ever) in which Tick and Render come
\* again and again, at the tick rate and at the frame rate, whatever else
\* arrives in between; a drain pass goes on until the queue is empty, and the
\* end of the iteration is then reached
FairSpec ==
  /\ Spec
  /\ []<>(pc # "start")
  /\ []<>(pc # "event")
  /\ []<>(pc # "drain" \/ queue = <<>>)
  /\ []<>(LoopEnded \/ TickArrived)
  /\ []<>(LoopEnded \/ RenderArrived)
  /\ WF_vars(EndIteration)

----------------------------------------------------------------------------
(* The loop under the key-sequence binding table: typed keys, ticks and     *)
(* renders                                                                 *)

SeqKey == \E k \in SeqKeys :
            /\ Len(last_tick_key_events) < MaxSeqKeys
            /\ Event(EvKeyOf(k))

NextKeys ==
  \/ Start
  \/ EvTick \/ EvRender \/ SeqKey
  \/ HandleTick \/ HandleRender \/ HandleOther
  \/ EndIteration

SpecKeys == InitWith(CfgSeq) /\ [][NextKeys]_vars

----------------------------------------------------------------------------
(* The loop in the search scenario: Enter, s and Esc pressed, ticks, and   *)
(* the spawned search tasks                                                *)

SearchKeyAllowed(k) ==
  /\ (InInputMode /\ k.code = "Char") => Len(comps.input.input_buffer) < MaxLen
  /\ (InInputMode /\ k.code = "Enter") => Len(chans) < MaxSubmits

SearchKey == \E k \in SearchKeys : SearchKeyAllowed(k) /\ Event(EvKeyOf(k))

\* the spawned search task ends without sending (it panics, or the runtime
\* drops it): the sender is dropped
TaskAbort(i) ==
  /\ pc = "event"
  /\ i \in 1..Len(chans)
  /\ chans[i].task = "running"
  /\ chans' = [chans EXCEPT ![i].task = "aborted"]
  /\ UNCHANGED <<pc, config, db, app_flags, focus_buffer, last_tick_key_events,
                 lm_state, queue, delivered, drawn, lm_vars, comps, overflow_checks, list_clamps,
                 handled>>

SubmitDone == \E i \in 1..MaxSubmits : \E r \in SubmitOutcomes : TaskComplete(i, r)
SubmitAbort == \E i \in 1..MaxSubmits : TaskAbort(i)

NextSearch ==
  \/ Start
  \/ EvTick \/ SearchKey
  \/ HandleTick
  \/ HandleInputModeOn \/ HandleInputModeOff
  \/ HandleFocusSwitch \/ HandleFocusBack
  \/ HandleError
  \/ EndIteration
  \/ SubmitDone \/ SubmitAbort

SpecSearch == InitWith(CfgNone) /\ [][NextSearch]_vars

----------------------------------------------------------------------------
(* The loop in the input scenario: the way to the search bar, the input    *)
(* text typed and edited, submitted or cancelled                           *)

\* most keys pressed between two ticks outside input mode in this scenario
MaxPending == 1
\* most searches submitted in this scenario
MaxEntered == 1

InputKeys == {Char("s"), Char("U+00E9"), KeyLeft, KeyRight, KeyBackspace,
              KeyEnter, KeyEsc, KeyF1}

InputKeyAllowed(k) ==
  /\ (InInputMode /\ k.code = "Char") => Len(comps.input.input_buffer) < MaxText
  /\ (InInputMode /\ k.code = "Enter") => Len(chans) < MaxEntered
  /\ ~InInputMode => Len(last_tick_key_events) < MaxPending

InputKey == \E k \in InputKeys : InputKeyAllowed(k) /\ Event(EvKeyOf(k))

NextInput ==
  \/ Start
  \/ EvTick \/ InputKey
  \/ HandleTick
  \/ HandleInputModeOn \/ HandleInputModeOff
  \/ HandleFocusSwitch \/ HandleFocusBack
  \/ HandleOther
  \/ EndIteration

SpecInput == InitWith(CfgInput) /\ [][NextInput]_vars

----------------------------------------------------------------------------
(* The loop in the list scenario: a search submitted from the results      *)
(* list, its result arriving, j, k and Esc pressed on the list, and the     *)
(* list drawn by Render and by Resize; in a debug and in a release build,   *)
(* with a ratatui that corrects the selection when it draws and with one    *)
(* that does not                                                            *)

\* most searches submitted in this scenario
MaxListSubmits == 1
\* largest selected index from which j or k is still pressed
MaxIndex == 1

ListKeys == {KeyEnter, KeyEsc, Char("s"), Char("j"), Char("k")}

\* outcomes of a search task in this scenario: two entries, none
ListOutcomes == {SearchOk(<<Video("v1"), Video("v2")>>), SearchOk(<<>>)}

\* the text typed is made of the letter s
ListKeyAllowed(k) ==
  /\ (InInputMode /\ k.code = "Char")
       => k.ch = "s" /\ Len(comps.input.input_buffer) < MaxLen
  /\ (InInputMode /\ k.code = "Enter") => Len(chans) < MaxListSubmits
  /\ (~InInputMode /\ k.code = "Char" /\ k.ch \in {"j", "k"}
        /\ IsSome(comps.search_result.selected))
       => Unwrap(comps.search_result.selected) <= MaxIndex

ListKey == \E k \in ListKeys : ListKeyAllowed(k) /\ Event(EvKeyOf(k))

ListDone == \E i \in 1..MaxListSubmits : \E r \in ListOutcomes : TaskComplete(i, r)

NextList ==
  \/ Start
  \/ EvTick \/ EvRender \/ EvResize \/ ListKey
  \/ HandleTick \/ HandleRender \/ HandleResize
  \/ HandleInputModeOn \/ HandleInputModeOff
  \/ HandleFocusSwitch \/ HandleFocusBack
  \/ HandleOther
  \/ EndIteration
  \/ ListDone

SpecList ==
  /\ \E checks \in BOOLEAN : \E clamps \in BOOLEAN : InitBuild(CfgNone, checks, clamps)
  /\ [][NextList]_vars

----------------------------------------------------------------------------
(* The LayoutManager on its own: init, update and get_component_layout     *)
(* called in any order on a manager made by LayoutManager::new             *)

LastThree(seq) == IF Len(seq) > 3 THEN SubSeq(seq, Len(seq) - 2, Len(seq)) ELSE seq

loop_vars == <<pc, config, db, app_flags, focus_buffer, last_tick_key_events, queue,
               delivered, drawn, comps, chans, overflow_checks, list_clamps, handled>>

LMInit(size) ==
  /\ layout_store' = init([layout_store |-> layout_store, screen |-> screen], size).layout_store
  /\ screen' = init([layout_store |-> layout_store, screen |-> screen], size).screen
  /\ lm_op' = "init"
  /\ lm_hist' = LastThree(Append(lm_hist, size))
  /\ UNCHANGED <<lm_result, loop_vars>>

LMUpdate(size) ==
  /\ layout_store' = update([layout_store |-> layout_store, screen |-> screen], size).layout_store
  /\ screen' = update([layout_store |-> layout_store, screen |-> screen], size).screen
  /\ lm_op' = "update"
  /\ lm_hist' = LastThree(Append(lm_hist, size))
  /\ UNCHANGED <<lm_result, loop_vars>>

LMLookup(scene) ==
  /\ lm_result' = [scene |-> scene, res |-> get_component_layout(layout_store, scene)]
  /\ lm_op' = "lookup"
  /\ UNCHANGED <<lm_state, lm_hist, loop_vars>>

LayoutInit == \E size \in Screens : LMInit(size)
LayoutUpdate == \E size \in Screens : LMUpdate(size)
LayoutLookup == \E scene \in Scenes : LMLookup(scene)

NextLayout == LayoutInit \/ LayoutUpdate \/ LayoutLookup

SpecLayout == Init /\ [][NextLayout]_vars

----------------------------------------------------------------------------
(* The Database on its own: the insert functions called in any order on a  *)
(* freshly migrated database                                               *)

\* most songs inserted
MaxSongs == 1

DbNames == {"Suisei", "LiSA"}
SongTitles == {"Stellar Stellar"}

app_vars == <<pc, config, app_flags, focus_buffer, last_tick_key_events,
              lm_state, queue, delivered, drawn, lm_vars, comps, chans,
              overflow_checks, list_clamps, handled>>

\* one call: the tables it leaves and, in last, its name, argument and result
DbCall(op, arg, r) ==
  /\ db' = [r.db EXCEPT !.last = [op |-> op, arg |-> arg, res |-> r.res]]
  /\ UNCHANGED app_vars

DbInsertSong == \E t \in SongTitles :
                  /\ Len(db.song) < MaxSongs
                  /\ DbCall("insert_song", <<t>>, insert_song(db, t))
DbInsertArtist == \E n \in DbNames : DbCall("insert_artist", <<n>>, insert_artist(db, n))
DbInsertAlbum == \E n \in DbNames : DbCall("insert_album", <<n>>, insert_album(db, n))
DbInsertGenre == \E n \in DbNames : DbCall("insert_genre", <<n>>, insert_genre(db, n))
DbInsertSongArtist ==
  \E s \in Ids(db.song) : \E a \in Ids(db.artist) :
    DbCall("insert_song_artist", <<s, a>>, insert_song_artist(db, SongArtist(s, a)))

NextDb == DbInsertSong \/ DbInsertArtist \/ DbInsertAlbum \/ DbInsertGenre
            \/ DbInsertSongArtist

SpecDb == InitWith(CfgNone) /\ [][NextDb]_vars

----------------------------------------------------------------------------
(* The InputArea on its own: update and handle_key_events called in any    *)
(* order on a component made by InputArea::new                             *)

InputNames == {"x", YoutubeSearch}
InputTexts == {<<>>, <<"a", "b">>, <<"U+00E9">>}
InputAreaKeys == {Char("a"), Char("U+00E9"), KeyLeft, KeyRight, KeyBackspace,
                  KeyEnter, KeyEsc}

LastTwo(seq) == IF Len(seq) > 2 THEN SubSeq(seq, Len(seq) - 1, Len(seq)) ELSE seq

\* InputArea::update(action); handled keeps the calls made since the last key
IAUpdate(action) ==
  /\ pc = "start"
  /\ comps' = [comps EXCEPT !.input = InputArea_update(comps.input, action)]
  /\ handled' = LastTwo(Append(handled, [action |-> action, forwarded |-> TRUE]))
  /\ UNCHANGED <<pc, config, db, app_flags, focus_buffer, last_tick_key_events,
                 lm_state, queue, delivered, drawn, lm_vars, chans, overflow_checks, list_clamps>>

\* InputArea::handle_key_events(key, focus) with the input bar focused; the
\* action returned, if any, is the only one in the queue, and delivered holds
\* the key
IAKeyEvent(key) ==
  /\ pc = "start"
  /\ LET r == InputArea_handle_key_events(comps.input, key, Focus("Home", InputBar))
     IN  /\ comps' = [comps EXCEPT !.input = r.st]
         /\ queue' = r.action
         /\ pc' = IF r.panic THEN "panic" ELSE "start"
  /\ handled' = <<>>
  /\ delivered' = [event |-> Some(EvKeyOf(key)), focus |-> Some(Focus("Home", InputBar)),
                   bound |-> <<>>, to |-> {4}]
  /\ UNCHANGED <<config, db, app_flags, focus_buffer, last_tick_key_events, lm_state,
                 drawn, lm_vars, chans, overflow_checks, list_clamps>>

InputAreaOn == \E n \in InputNames : \E v \in {None} \cup {Some(t) : t \in InputTexts} :
                 IAUpdate(InputModeOn(n, v))
InputAreaOff == \E n \in {None} \cup {Some(m) : m \in InputNames} : \E t \in InputTexts :
                  IAUpdate(InputModeOff(n, t))
InputAreaKey == \E k \in InputAreaKeys :
                  /\ k.code = "Char" => Len(comps.input.input_buffer) < MaxText
                  /\ IAKeyEvent(k)

NextInputArea == InputAreaOn \/ InputAreaOff \/ InputAreaKey

SpecInputArea == InitWith(CfgNone) /\ [][NextInputArea]_vars

----------------------------------------------------------------------------
(* Claims                                                                  *)

\* C1: after any sequence of FocusSwitch, InputModeOn, FocusBack and
\* InputModeOff actions the focus stack holds at least one element and its
\* bottom element is the startup focus.
FocusStackNeverEmpty ==
  Len(focus_buffer) >= 1 /\ focus_buffer[1] = first_focus

PopAhead ==
  pc = "drain" /\ queue # <<>> /\ Head(queue).type \in {"FocusBack", "InputModeOff"}

\* C2: a FocusBack or InputModeOff handled while the focus stack holds
\* exactly one element is rejected as a fatal error at that step: the stack
\* keeps its element and the loop does not go on.
PopBelowOneIsFatal ==
  [][(PopAhead /\ Len(focus_buffer) = 1)
       => (pc' = "panic" /\ focus_buffer' = focus_buffer)]_vars

\* the key of the last event, pressed outside input mode, matches a
\* single-key binding of Mode::Global
GlobalKeyMatched(d) ==
  /\ IsSome(d.event)
  /\ Unwrap(d.event).type = "Key"
  /\ Unwrap(d.focus).scene # InputBar
  /\ "Global" \in DOMAIN config
  /\ IsSome(KeymapGet(config["Global"], <<Unwrap(d.event).key>>))

\* C3: a key press outside input mode that matches a single-key Global
\* binding enqueues only the Global binding's action; the focused Mode's
\* bindings are not resolved (nothing more is sent, nothing is buffered).
GlobalBindingWins ==
  [][(pc = "event" /\ pc' = "drain" /\ GlobalKeyMatched(delivered'))
       => /\ delivered'.bound =
               KeymapGet(config["Global"], <<Unwrap(delivered'.event).key>>)
          /\ last_tick_key_events' = last_tick_key_events]_vars

\* C4: while the active scene is InputBar an event reaches handle_events of
\* exactly the components whose mode is Global or whose scene is InputBar.
InputModeDelivery ==
  (IsSome(delivered.event) /\ Unwrap(delivered.focus).scene = InputBar)
    => delivered.to = {i \in 1..Len(components) :
                         components[i].mode = "Global" \/ components[i].scene = InputBar}

\* C5: in every draw pass (Render or Resize) a component is drawn only if
\* its mode is the focused mode or Global, and only with the rectangle the
\* LayoutManager holds for its scene.
DrawOnlyEligibleWithLayout ==
  drawn.pass # "none"
    => \A k \in 1..Len(drawn.calls) :
         LET c == components[drawn.calls[k][1]]
         IN  /\ c.mode \in {Unwrap(drawn.focus).mode, "Global"}
             /\ c.scene \in DOMAIN layout_store
             /\ drawn.calls[k][2] = layout_store[c.scene]

Eligible(focus) ==
  {i \in 1..Len(components) :
     components[i].mode = focus.mode \/ components[i].mode = "Global"}

Resolved == {i \in 1..Len(components) : components[i].scene \in DOMAIN layout_store}

\* C6: in a Render pass every eligible component whose scene the
\* LayoutManager resolves is drawn once, in registry order, with that
\* rectangle; every eligible component whose scene is not resolved is not
\* drawn and accounts for exactly one Error action; the loop goes on.
RenderPassReportsMisses ==
  drawn.pass = "Render"
    => LET focus == Unwrap(drawn.focus)
           calls == drawn.calls
       IN  /\ {calls[k][1] : k \in 1..Len(calls)} = Eligible(focus) \cap Resolved
           /\ \A k \in 1..Len(calls) :
                /\ calls[k][2] = layout_store[components[calls[k][1]].scene]
                /\ \A j \in 1..(k - 1) : calls[j][1] < calls[k][1]
           /\ Len(drawn.errors) = Cardinality(Eligible(focus) \ Resolved)
           /\ \A k \in 1..Len(drawn.errors) : drawn.errors[k].type = "Error"
           /\ pc = "drain"

\* a Render pass in Manager mode: SongList's scene has no layout, the
\* Global components before it are drawn
RenderMissWitness ==
  /\ drawn.pass = "Render"
  /\ Unwrap(drawn.focus).mode = "Manager"
  /\ Len(drawn.errors) = 1
  /\ Len(drawn.calls) >= 1
  /\ pc = "drain"

\* C7: after init or update the map has an entry for the scene of every
\* registered component.
EveryComponentSceneMapped ==
  lm_hist # <<>>
    => \A i \in 1..Len(components) : components[i].scene \in DOMAIN layout_store

\* C8: get_component_layout returns an error for a scene without an entry
\* and the stored rectangle for a scene with one, and leaves the map as it was.
LookupFailsExplicitly ==
  [][lm_op' = "lookup"
       => LET scene == lm_result'.scene
              res == lm_result'.res
          IN  /\ scene \notin DOMAIN layout_store => ~res.ok
              /\ scene \in DOMAIN layout_store
                   => (res.ok /\ res.rect = layout_store[scene])
              /\ layout_store' = layout_store
              /\ screen' = screen]_vars

\* a lookup of the scene the builder never populates, after a rebuild
LookupMissWitness ==
  /\ lm_op = "lookup"
  /\ lm_hist # <<>>
  /\ lm_result.scene = ManagerSongList
  /\ ~lm_result.res.ok

\* C9: update(screen) called twice in a row with the same screen leaves the
\* map as the first call left it, and that map is the one a fresh manager
\* builds for the screen (nothing is left from earlier sizes).
UpdateIdempotent ==
  [][(lm_op' = "update" /\ lm_op = "update" /\ Last(lm_hist') = Last(lm_hist))
       => /\ layout_store' = layout_store
          /\ layout_store' =
               build_layouts([layout_store |-> EmptyStore, screen |-> screen']).layout_store]_vars

\* two updates in a row with one screen, after a call with another
UpdateTwiceWitness ==
  /\ lm_op = "update"
  /\ Len(lm_hist) = 3
  /\ lm_hist[1] # lm_hist[2]
  /\ lm_hist[2] = lm_hist[3]

Screen80x24 == Rect(0, 0, 80, 24)

\* C10 as stated: on 80x24 the two download panels halve the whole middle
\* region, rows 1..21.
Layout80x24PanelsFillMiddle ==
  (lm_hist # <<>> /\ screen = Screen80x24)
    => /\ layout_store[TitleBar] = Rect(0, 0, 80, 1)
       /\ layout_store[InputBar] = Rect(0, 21, 80, 3)
       /\ layout_store[DownloadSearchResult] = Rect(0, 1, 40, 20)
       /\ layout_store[DownloadSearchResultDetails] = Rect(40, 1, 40, 20)

\* C10 amended: on 80x24 TitleBar is row 0, InputBar rows 21..24, the
\* middle region rows 1..21 goes to Home; in download mode its first three
\* rows are the search bar and the two panels halve the rows 4..21 below it.
Layout80x24 ==
  (lm_hist # <<>> /\ screen = Screen80x24)
    => /\ layout_store[TitleBar] = Rect(0, 0, 80, 1)
       /\ layout_store[InputBar] = Rect(0, 21, 80, 3)
       /\ layout_store[HomeIntro] = Rect(0, 1, 80, 20)
       /\ layout_store[DownloadSearchBar] = Rect(0, 1, 80, 3)
       /\ layout_store[DownloadSearchResult] = Rect(0, 4, 40, 17)
       /\ layout_store[DownloadSearchResultDetails] = Rect(40, 4, 40, 17)

\* the map built for 80x24 after the manager held another size
Layout80x24Witness ==
  /\ Len(lm_hist) >= 2
  /\ lm_hist[Len(lm_hist) - 1] # Screen80x24
  /\ screen = Screen80x24
  /\ lm_op \in {"init", "update"}

\* the queue after a step still starts with the actions that were waiting
\* behind the one taken
KeepsWaiting == /\ Len(queue') >= Len(queue) - 1
                /\ SubSeq(queue', 1, Len(queue) - 1) = Tail(queue)

\* C11: within a drain pass the action handled is always the oldest one in
\* the queue, the actions enqueued while it is handled go behind every action
\* already waiting, and the suspend/quit check at the end of the iteration
\* runs only when the queue is empty.
DrainInEnqueueOrder ==
  [][/\ (pc = "drain" /\ queue # <<>>) =>
          /\ Len(handled') = Len(handled) + 1
          /\ handled'[Len(handled')].action = Head(queue)
          /\ SubSeq(handled', 1, Len(handled)) = handled
          /\ KeepsWaiting
     /\ (pc = "drain" /\ pc' \in {"event", "done"}) => queue = <<>>]_vars

\* a Render pass in Manager mode has sent its Error behind the Help that
\* was already waiting
DrainOrderWitness ==
  /\ pc = "drain"
  /\ Len(handled) = 1 /\ handled[1].action = Render
  /\ Len(queue) = 2 /\ queue[1] = Help /\ queue[2].type = "Error"

\* C12: every action taken from the queue is passed, after the orchestrator's
\* own reaction, to update of every registered component in registration
\* order, and every action the components return is appended to the queue.
EveryActionForwarded ==
  [][(pc = "drain" /\ queue # <<>>) =>
       LET f == Forward(1, Head(queue),
                        [comps |-> comps, sent |-> <<>>, chans |-> chans])
       IN  /\ handled'[Len(handled')] = [action |-> Head(queue), forwarded |-> TRUE]
           /\ comps' = f.comps
           /\ chans' = f.chans
           /\ Len(queue') >= Len(f.sent)
           /\ SubSeq(queue', Len(queue') - Len(f.sent) + 1, Len(queue')) = f.sent]_vars

\* a Suspend was handled in the current drain pass and no Resume after it
SuspendHandledInPass ==
  \E i \in 1..Len(handled) :
    /\ handled[i].action = Suspend
    /\ \A j \in (i + 1)..Len(handled) : handled[j].action # Resume

\* C13: the loop suspends at the end of an iteration only if a Suspend was
\* handled in that iteration's drain pass; suspending enqueues a Resume and
\* the loop goes on (it does not end); that Resume is the first action
\* drained afterwards, and draining it makes should_suspend false again.
SuspendIsReversible ==
  [][/\ (pc = "drain" /\ queue = <<>> /\ should_suspend) =>
          (SuspendHandledInPass /\ pc' = "event" /\ queue' = <<Resume>>)
     /\ (pc = "event" /\ should_suspend) =>
          (queue = <<Resume>> /\ (queue' # queue => Head(queue') = Resume))
     /\ (pc = "drain" /\ queue # <<>> /\ Head(queue) = Resume) =>
          ~should_suspend']_vars

\* the Resume of a suspension has been drained
ResumedWitness ==
  /\ pc = "drain" /\ ~should_suspend
  /\ handled # <<>> /\ handled[1].action = Resume

\* C14: once Quit has been handled should_quit stays true and the loop
\* eventually exits, given that the event source keeps producing events; an
\* iteration that ends with should_suspend set goes through the suspend
\* sub-cycle (a Resume is enqueued and the loop goes on) whether or not Quit
\* was handled, so the loop exits only with should_suspend false; and after
\* the exit no action is handled.
QuitLeadsToExit ==
  /\ [][should_quit => should_quit']_vars
  /\ [][pc # "done"]_vars
  /\ [][(pc = "drain" /\ queue = <<>> /\ should_suspend) =>
          (pc' = "event" /\ queue' = <<Resume>>)]_vars
  /\ [][pc' = "done" => (should_quit /\ ~should_suspend)]_vars
  /\ (should_quit ~> pc = "done")

\* the loop is about to exit after the suspend sub-cycle: Quit was handled
\* in an earlier pass, the Resume in this one
QuitAfterSuspendWitness ==
  /\ pc = "drain" /\ queue = <<>> /\ should_quit /\ ~should_suspend
  /\ handled # <<>> /\ handled[1].action = Resume
  /\ \A i \in 1..Len(handled) : handled[i].action # Quit

\* a press of g outside input mode
GPress == /\ pc = "event" /\ pc' = "drain"
          /\ delivered'.event = Some(EvKeyOf(Char("g")))

\* how many times g was pressed since the last Tick (every such press is
\* in the rolling buffer, g having no single-key binding)
GsBuffered == Cardinality({i \in 1..Len(last_tick_key_events) :
                             last_tick_key_events[i] = Char("g")})

\* C15 as stated: the first g press since the last Tick sends no action and
\* is buffered, the second one sends Help (no Tick having been handled in
\* between), and a Tick empties the rolling buffer.
SecondGFiresHelp ==
  [][/\ (GPress /\ GsBuffered = 0) =>
          /\ delivered'.bound = <<>>
          /\ last_tick_key_events' = Append(last_tick_key_events, Char("g"))
     /\ (GPress /\ GsBuffered = 1) => delivered'.bound = <<Help>>
     /\ Taking("Tick") => last_tick_key_events' = <<>>]_vars

\* C15, amended: a g press on an empty rolling buffer sends no action and
\* is buffered; a g press sends Help if and only if the rolling buffer then
\* holds exactly one g and nothing else (no Tick handled and no other
\* unbound key pressed since that g); a Tick empties the rolling buffer.
GGFiresHelpOnExactBuffer ==
  [][/\ (GPress /\ last_tick_key_events = <<>>) =>
          /\ delivered'.bound = <<>>
          /\ last_tick_key_events' = <<Char("g")>>
     /\ GPress => /\ delivered'.bound \in {<<>>, <<Help>>}
                  /\ delivered'.bound = <<Help>> <=>
                       last_tick_key_events = <<Char("g")>>
     /\ Taking("Tick") => last_tick_key_events' = <<>>]_vars

\* the second g has just sent Help
GGWitness ==
  /\ pc = "drain"
  /\ delivered.event = Some(EvKeyOf(Char("g")))
  /\ delivered.bound = <<Help>>
  /\ last_tick_key_events = <<Char("g"), Char("g")>>

\* the SearchResult component's pending handle and the channel behind it
PendingRx == comps.search_result.search_rx
PendingChan == chans[Unwrap(PendingRx)]

\* an InputModeOff named "youtube_search" is being taken from the queue
TakingSubmit ==
  /\ Taking("InputModeOff")
  /\ Head(queue).input_name = Some(YoutubeSearch)

\* C16: forwarding an InputModeOff whose input_name is none, or is a name
\* other than "youtube_search", to the components leaves the search bar's
\* query and the search-results component (query, pending handle, result
\* list) unchanged, spawns no search task and returns no action.
IgnoredInputLeavesSearch ==
  \A name \in {None, Some("other_input")} : \A buffer \in {<<>>, <<"s">>} :
    LET f == Forward(1, InputModeOff(name, buffer),
                     [comps |-> comps, sent |-> <<>>, chans |-> chans])
    IN  /\ f.comps.search_bar = comps.search_bar
        /\ f.comps.search_result = comps.search_result
        /\ f.chans = chans
        /\ f.sent = <<>>

\* Esc in the input bar has cancelled an input while a search was pending
\* and a query stored
CancelWitness ==
  /\ pc = "drain" /\ queue = <<>>
  /\ handled # <<>> /\ handled[Len(handled)].action = InputOutDefault
  /\ IsSome(PendingRx)
  /\ comps.search_bar.search_query = <<"s">>

\* C17: the receiver of the handle is the only one alive; a search submitted
\* while another is pending replaces the handle and drops the old receiver;
\* the result list changes only by adopting the value found in the current
\* handle's channel; and a search task that ends changes neither the
\* components nor the queue.
SupersededSearchIsDiscarded ==
  [][/\ \A i \in 1..Len(chans) : ~chans[i].rx_dropped => PendingRx = Some(i)
     /\ (TakingSubmit /\ IsSome(PendingRx)) =>
          /\ comps'.search_result.search_rx = Some(Len(chans) + 1)
          /\ Len(chans') = Len(chans) + 1
          /\ chans'[Unwrap(PendingRx)].rx_dropped
          /\ ~chans'[Len(chans')].rx_dropped
     /\ (comps'.search_result.search_result_videos #
           comps.search_result.search_result_videos) =>
          /\ Taking("Tick") /\ IsSome(PendingRx)
          /\ ~PendingChan.rx_dropped /\ IsSome(PendingChan.value)
          /\ comps'.search_result.search_result_videos =
               Some(Unwrap(PendingChan.value).entries)
     /\ (pc = "event" /\ pc' = "event" /\ chans' # chans) =>
          (comps' = comps /\ queue' = queue)]_vars

\* the first search was replaced while pending, its task ended afterwards,
\* and the list holds the result of the second search
SupersededWitness ==
  /\ Len(chans) = 2
  /\ chans[1].rx_dropped /\ chans[1].task = "panicked"
  /\ PendingRx = Some(2)
  /\ comps.search_result.search_result_videos = Some(<<Video("v3"), Video("v1")>>)

\* C18: a Tick that finds the pending search ready with a failure makes the
\* component return an Error action and clear its pending handle.
TickFailureClearsHandle ==
  [][(/\ Taking("Tick") /\ IsSome(PendingRx)
      /\ try_recv(PendingChan) = "Ok" /\ ~Unwrap(PendingChan.value).ok) =>
       /\ queue' # <<>> /\ queue'[Len(queue')].type = "Error"
       /\ comps'.search_result.search_rx = None]_vars

\* C19: a Tick that finds the pending search's channel closed without a
\* value (the task ended without sending) makes the component return an
\* Error action and clear its pending handle.
TickClosedReportsError ==
  [][(/\ Taking("Tick") /\ IsSome(PendingRx)
      /\ try_recv(PendingChan) = "Closed" /\ PendingChan.task = "aborted") =>
       /\ queue' # <<>> /\ queue'[Len(queue')].type = "Error"
       /\ comps'.search_result.search_rx = None]_vars

\* C20: after an InputModeOff named "youtube_search" the component is
\* pending (it holds the receiver of a task still running), and the Tick
\* that finds a successful result makes the result list equal to the
\* result's entries, in their order.
SuccessfulSearchFillsList ==
  [][/\ TakingSubmit =>
          /\ IsSome(comps'.search_result.search_rx)
          /\ try_recv(chans'[Unwrap(comps'.search_result.search_rx)]) = "Empty"
          /\ comps'.search_result.search_query = Head(queue).buffer
     /\ (/\ Taking("Tick") /\ IsSome(PendingRx)
         /\ try_recv(PendingChan) = "Ok" /\ Unwrap(PendingChan.value).ok) =>
          comps'.search_result.search_result_videos =
            Some(Unwrap(PendingChan.value).entries)]_vars

\* a Tick has just adopted a result of three entries
SearchFilledWitness ==
  /\ pc = "drain"
  /\ handled # <<>> /\ handled[Len(handled)].action = Tick
  /\ comps.search_result.search_result_videos =
       Some(<<Video("v1"), Video("v2"), Video("v3")>>)
  /\ Len(chans) = 1 /\ chans[1].task = "done" /\ chans[1].value = None

\* a search is pending and its task has not ended
SearchStalled == IsSome(PendingRx) /\ PendingChan.task = "running"

\* C21: a Tick handled while the pending result is not ready leaves the
\* search-results component (handle, result list, selection) and the channels
\* as they are and enqueues nothing; and while a search stays incomplete the
\* loop is never held: every event taken is dispatched to the drain pass,
\* every queued action is handled and forwarded, and the end of the drain
\* pass returns to the event point.
TickNeverWaitsOnSearch ==
  [][/\ (Taking("Tick") /\ IsSome(PendingRx) /\ try_recv(PendingChan) = "Empty") =>
          /\ comps'.search_result = comps.search_result
          /\ chans' = chans
          /\ queue' = Tail(queue)
          /\ pc' = "drain"
     /\ (SearchStalled /\ pc = "event" /\ pc' # "event") =>
          (pc' = "drain" /\ IsSome(delivered'.event))
     /\ (SearchStalled /\ pc = "drain" /\ queue # <<>>) =>
          /\ pc' = "drain"
          /\ handled' = Append(handled, [action |-> Head(queue), forwarded |-> TRUE])
     /\ (SearchStalled /\ pc = "drain" /\ queue = <<>>) => pc' = "event"]_vars

\* a Tick was handled on its own while the search was pending, and the
\* search is still pending with its task running
StalledTickWitness ==
  /\ pc = "drain" /\ queue = <<>>
  /\ handled = <<[action |-> Tick, forwarded |-> TRUE]>>
  /\ SearchStalled
  /\ comps.search_result.search_result_videos = None

\* the n-th last call of update since the last key
UpdateCall(n) == handled[Len(handled) + 1 - n].action

\* C22: InputModeOn with an initial value v followed at once by the
\* InputModeOff that carries the same name and the buffer v leaves the input
\* buffer equal to v, whatever the component held before; and after an
\* InputModeOn without an initial value the buffer is empty and the cursor at 0.
InputRoundTrip ==
  /\ (/\ Len(handled) >= 2
      /\ UpdateCall(2).type = "InputModeOn"
      /\ IsSome(UpdateCall(2).initial_value)
      /\ UpdateCall(1) = InputModeOff(Some(UpdateCall(2).input_name),
                                      Unwrap(UpdateCall(2).initial_value)))
       => comps.input.input_buffer = Unwrap(UpdateCall(2).initial_value)
  /\ (/\ Len(handled) >= 1
      /\ UpdateCall(1).type = "InputModeOn"
      /\ UpdateCall(1).initial_value = None)
       => (comps.input.input_buffer = <<>> /\ comps.input.position = 0)

\* the round trip with name "x" and the text "ab", made on a component that
\* was used under another name before
InputRoundTripWitness ==
  /\ handled = <<[action |-> InputModeOn("x", Some(<<"a", "b">>)), forwarded |-> TRUE],
                 [action |-> InputModeOff(Some("x"), <<"a", "b">>), forwarded |-> TRUE]>>
  /\ comps.input.input_buffer = <<"a", "b">>
  /\ comps.input.input_name = Some("x")

\* the key event just dispatched was key k, pressed while focus f was current
Pressed(k, f) ==
  /\ pc = "event" /\ pc' # "event"
  /\ delivered'.event = Some(EvKeyOf(k))
  /\ delivered'.focus = Some(f)

\* C23: pressing s with the search-bar scene focused (input mode not active)
\* enqueues InputModeOn named "youtube_search" without initial value, and the
\* s is not inserted into the input buffer: the key event leaves the input
\* component as it is, and handling the InputModeOn leaves the buffer empty
\* with the cursor at 0.
SOpensSearchInput ==
  [][/\ Pressed(Char("s"), Focus("Download", DownloadSearchBar)) =>
          /\ pc' = "drain"
          /\ queue' = queue \o <<InputModeOn(YoutubeSearch, None)>>
          /\ comps'.input = comps.input
     /\ (Taking("InputModeOn") /\ Head(queue) = InputModeOn(YoutubeSearch, None)) =>
          comps'.input = [input_name |-> Some(YoutubeSearch),
                          input_buffer |-> <<>>, position |-> 0]]_vars

\* the input was opened from the search bar a second time, the component
\* still holding a query submitted before: its buffer is empty again
SOpensSearchInputWitness ==
  /\ pc = "drain"
  /\ handled = <<[action |-> InputModeOn(YoutubeSearch, None), forwarded |-> TRUE]>>
  /\ focus_buffer = <<first_focus, Focus("Download", DownloadSearchBar),
                      Focus("Download", InputBar)>>
  /\ comps.search_bar.search_query # <<>>
  /\ comps.input.input_buffer = <<>>

\* C24: in input mode opened by an InputModeOn named n, every character,
\* Left, Right and Backspace key is taken by the input component and the
\* loop goes on, and pressing Enter enqueues exactly one action, the
\* InputModeOff whose input_name is Some(n) and whose buffer is the input
\* component's buffer at that moment.
EnterSubmitsTypedText ==
  [][(pc = "event" /\ InInputMode /\ pc' # "event"
      /\ IsSome(delivered'.event) /\ Unwrap(delivered'.event).type = "Key") =>
       /\ pc' = "drain"
       /\ delivered'.event = Some(EvKeyOf(KeyEnter)) =>
            /\ IsSome(comps.input.input_name)
            /\ queue' = queue \o <<InputModeOff(comps.input.input_name,
                                               comps.input.input_buffer)>>]_vars

\* C25: handling an Error action leaves should_quit, should_suspend, the
\* focus stack, the rolling key buffer and the layout map unchanged, and the
\* loop goes on: the drain pass continues with the actions that were waiting,
\* the Error having been forwarded to the components.
ErrorIsRecoverable ==
  [][Taking("Error") =>
       /\ UNCHANGED <<should_quit, should_suspend, focus_buffer,
                      last_tick_key_events, layout_store, screen>>
       /\ pc' = "drain"
       /\ queue' = Tail(queue)
       /\ handled' = Append(handled, [action |-> Head(queue), forwarded |-> TRUE])]_vars

\* the Error of a layout miss was handled last in a drain pass, behind the
\* action that was waiting before it; the pass ends with neither flag set, so
\* the loop goes round again
ErrorHandledWitness ==
  /\ pc = "drain" /\ queue = <<>>
  /\ ~should_quit /\ ~should_suspend
  /\ Len(handled) = 3
  /\ handled[1].action = Render
  /\ handled[3].action.type = "Error"

\* the step is a call of insert_artist, insert_album or insert_genre (the
\* table named tbl) with name n: an existing name returns the id of its row
\* and adds nothing, a new name adds one row and returns an id no earlier row
\* of the table has
UpsertStep(op, tbl) ==
  (db'.last.op = op) =>
    LET n == db'.last.arg[1]
        res == db'.last.res
        old == db[tbl]
        new == db'[tbl]
        rows == {i \in 1..Len(old) : old[i].name = n}
    IN  /\ res.ok
        /\ rows # {} => /\ new = old
                        /\ \E i \in rows : old[i].id = res.v
        /\ rows = {} => /\ new = Append(old, [id |-> res.v, name |-> n])
                        /\ res.v \notin Ids(old)

\* insert(n), insert(n), insert(m) from database d returns a, a, b with b # a
UpsertTriple(insert(_, _), d) ==
  \A n, m \in DbNames :
    LET r1 == insert(d, n)
        r2 == insert(r1.db, n)
        r3 == insert(r2.db, m)
    IN  /\ r1.res.ok /\ r2.res.ok /\ r3.res.ok
        /\ r2.res.v = r1.res.v
        /\ r2.db = r1.db
        /\ m # n => r3.res.v # r1.res.v

\* C26: for each of artist, album and genre, inserting a name that exists
\* returns the id of the existing row and adds no row, inserting a name that
\* does not exist adds one row and returns an id no earlier row of the table
\* has; so insert(n), insert(n), insert(m) with m # n returns a, a, b, b # a.
UpsertByNameIsIdempotent ==
  /\ [][db' # db => /\ UpsertStep("insert_artist", "artist")
                    /\ UpsertStep("insert_album", "album")
                    /\ UpsertStep("insert_genre", "genre")]_vars
  /\ [](/\ UpsertTriple(insert_artist, db)
        /\ UpsertTriple(insert_album, db)
        /\ UpsertTriple(insert_genre, db))

\* "Suisei" was inserted into the artist table a second time, after "LiSA":
\* the call returned the id of the first row and the table has two rows
UpsertWitness ==
  /\ db.last = [op |-> "insert_artist", arg |-> <<"Suisei">>, res |-> DbOk(1)]
  /\ db.artist = <<[id |-> 1, name |-> "Suisei"], [id |-> 2, name |-> "LiSA"]>>

\* C27: inserting a song-artist association whose (song_id, artist_id) pair
\* is in the association table returns an error and leaves the table as it
\* is, while the first insert of a pair succeeds and adds it.
DuplicateAssociationFails ==
  [][(db' # db /\ db'.last.op = "insert_song_artist") =>
       LET pair == SongArtist(db'.last.arg[1], db'.last.arg[2])
       IN  /\ pair \in db.songs_artists =>
                (~db'.last.res.ok /\ db'.songs_artists = db.songs_artists)
           /\ pair \notin db.songs_artists =>
                (db'.last.res.ok /\ db'.songs_artists = db.songs_artists \cup {pair})]_vars

\* the pair (1, 1) was inserted a second time and the call returned an error
DuplicateAssociationWitness ==
  /\ db.last = [op |-> "insert_song_artist", arg |-> <<1, 1>>, res |-> DbErr]
  /\ SongArtist(1, 1) \in db.songs_artists
  /\ Len(db.artist) = 2

\* a key was just dispatched while the active scene was InputBar
KeyInInputMode ==
  /\ pc = "event" /\ pc' # "event"
  /\ InInputMode
  /\ IsSome(delivered'.event) /\ Unwrap(delivered'.event).type = "Key"

\* C28: while the active scene is InputBar a key press enqueues no action of
\* the key-binding tables (Global or focused mode) and appends no key to the
\* rolling key buffer; it is handed to the components whose scene is
\* InputBar only, and the actions it enqueues are those they return.
InputModeBypassesBindings ==
  [][KeyInInputMode =>
       LET key == Unwrap(delivered'.event).key
           r == InputArea_handle_key_events(comps.input, key, Last(focus_buffer))
       IN  /\ delivered'.bound = <<>>
           /\ last_tick_key_events' = last_tick_key_events
           /\ delivered'.to = {i \in 1..Len(components) : components[i].scene = InputBar}
           /\ queue' = queue \o r.action]_vars

\* Left, bound to Help in Global, was pressed in input mode opened in
\* Download mode: nothing was enqueued, and the key pressed before input mode
\* is still the only one in the rolling buffer
BoundKeyInInputModeWitness ==
  /\ pc = "drain" /\ queue = <<>>
  /\ delivered.event = Some(EvKeyOf(KeyLeft))
  /\ delivered.focus = Some(Focus("Download", InputBar))
  /\ last_tick_key_events = <<Char("s")>>
  /\ comps.input.input_buffer # <<>>

\* C29: a search task whose receiver has been dropped (its handle replaced
\* by a newer request, or cleared) ends without a fault when it delivers its
\* result: no task ever panics.
DroppedSearchEndsQuietly ==
  [][\A i \in 1..Len(chans) :
       (chans[i].rx_dropped /\ chans[i].task = "running" /\ chans'[i].task # "running")
         => chans'[i].task # "panicked"]_vars

\* C30: handling InputModeOn pushes the focus whose scene is InputBar and
\* whose mode is the mode of the focus current just before, so the current
\* mode stays; while the input bar is focused the focus stack changes only
\* when an InputModeOff is handled, which pops that focus: the stack is then
\* the one InputModeOn found, and the focus current before is current again.
InputModeKeepsMode ==
  [][/\ (Taking("InputModeOn") /\ focus_buffer # <<>>) =>
          /\ focus_buffer' =
               Append(focus_buffer, Focus(Last(focus_buffer).mode, InputBar))
          /\ Last(focus_buffer').mode = Last(focus_buffer).mode
     /\ (InInputMode /\ focus_buffer' # focus_buffer) =>
          /\ Taking("InputModeOff")
          /\ focus_buffer = Append(focus_buffer', Last(focus_buffer))
          /\ Last(focus_buffer).mode = Last(focus_buffer').mode]_vars

\* input mode was opened from the search bar and submitted: the focus is the
\* search bar's again, on top of the startup focus
InputModeReturnWitness ==
  /\ pc = "drain"
  /\ handled # <<>>
  /\ handled[Len(handled)].action.type = "InputModeOff"
  /\ IsSome(handled[Len(handled)].action.input_name)
  /\ focus_buffer = <<first_focus, Focus("Download", DownloadSearchBar)>>

\* the step that hands a key to the components while the search-results list
\* is focused
KeyOnList(k) ==
  /\ pc = "event" /\ pc' # "event"
  /\ delivered'.event = Some(EvKeyOf(k))
  /\ Unwrap(delivered'.focus).scene = DownloadSearchResult

\* the actions of the current pass, handled or still waiting
PassActions == [i \in 1..Len(handled) |-> handled[i].action] \o queue

\* the pass of an Esc pressed on the list that had an item selected
EscClearedSelection ==
  /\ pc = "drain"
  /\ delivered.event = Some(EvKeyOf(KeyEsc))
  /\ Unwrap(delivered.focus).scene = DownloadSearchResult
  /\ \E i \in 1..Len(PassActions) : PassActions[i].type = "DownloadShowSearchDetails"

\* C31: Esc pressed while the search-results list is focused: with an item
\* selected, the selection is cleared and DownloadShowSearchDetails(None) is
\* the only action emitted, no FocusBack, and the focus stack is the same
\* through the whole pass; with nothing selected, FocusBack is the only action
\* emitted and the selection stays empty.
EscOnResults ==
  /\ [][KeyOnList(KeyEsc) =>
          /\ comps'.search_result.selected = None
          /\ focus_buffer' = focus_buffer
          /\ IF IsSome(comps.search_result.selected)
               THEN queue' = queue \o <<DownloadShowSearchDetails(None)>>
               ELSE queue' = queue \o <<FocusBack>>]_vars
  /\ [](EscClearedSelection =>
          /\ Last(focus_buffer) = Unwrap(delivered.focus)
          /\ \A i \in 1..Len(PassActions) : PassActions[i].type # "FocusBack")

\* Esc pressed on a list of two entries with a selection has been handled:
\* the selection and the details are cleared and the list is still focused
EscOnResultsWitness ==
  /\ EscClearedSelection
  /\ queue = <<>>
  /\ handled = <<[action |-> DownloadShowSearchDetails(None), forwarded |-> TRUE]>>
  /\ comps.search_result.selected = None
  /\ IsSome(comps.search_result.search_result_videos)
  /\ Len(Unwrap(comps.search_result.search_result_videos)) = 2
  /\ comps.details.selected_search_result = None
  /\ Last(focus_buffer) = Focus("Download", DownloadSearchResult)

\* the InputArea call of this step was handle_key_events with key k
InputAreaKeyStep(k) ==
  /\ pc = "start"
  /\ handled' = <<>>
  /\ delivered'.event = Some(EvKeyOf(k))

\* the number of the char that holds byte idx of the buffer
CharAt(buf, idx) ==
  CHOOSE k \in 1..Len(buf) :
    StrLen(SubSeq(buf, 1, k - 1)) <= idx /\ idx < StrLen(SubSeq(buf, 1, k))

RemoveAt(buf, n) == SubSeq(buf, 1, n - 1) \o SubSeq(buf, n + 1, Len(buf))

\* C32: after any sequence of InputModeOn actions and character, Left, Right,
\* Backspace, Enter and Esc keys the cursor position of the input component
\* lies between 0 and the length of the buffer; a character key inserts at
\* the cursor and moves it right by one, Backspace at a position of 1 or more
\* removes the character just before the cursor and moves it left by one, and
\* Backspace at position 0 changes nothing.
CursorStaysInBuffer ==
  /\ [](comps.input.position \in 0..StrLen(comps.input.input_buffer))
  /\ [][\A k \in InputAreaKeys :
          InputAreaKeyStep(k) =>
            LET buf == comps.input.input_buffer
                pos == comps.input.position
            IN  /\ k.code = "Char" =>
                     /\ pc' # "panic"
                     /\ IsCharBoundary(buf, pos)
                     /\ comps'.input.input_buffer = StrInsert(buf, pos, k.ch)
                     /\ comps'.input.position = pos + 1
                /\ (k.code = "Backspace" /\ pos >= 1) =>
                     /\ pc' # "panic"
                     /\ pos <= StrLen(buf)
                     /\ comps'.input.input_buffer = RemoveAt(buf, CharAt(buf, pos - 1))
                     /\ comps'.input.position = pos - 1
                /\ (k.code = "Backspace" /\ pos = 0) =>
                     comps'.input = comps.input]_vars

\* the list the search-results component holds is empty
EmptyList ==
  /\ IsSome(comps.search_result.search_result_videos)
  /\ Len(Unwrap(comps.search_result.search_result_videos)) = 0

\* C33: in the search-results component a selected index is always less than
\* the number of entries of the current result list, whatever j, k and Esc
\* keys were pressed and whatever results arrived (an empty list, a shorter
\* list, keys pressed before any result), and no list_next or previous_list
\* step computes len - 1 on an empty list.
SelectionWithinList ==
  /\ [](IsSome(comps.search_result.selected) =>
          /\ IsSome(comps.search_result.search_result_videos)
          /\ Unwrap(comps.search_result.selected)
               < Len(Unwrap(comps.search_result.search_result_videos)))
  /\ [][/\ KeyOnList(Char("j")) =>
             ~(EmptyList /\ IsSome(comps.search_result.selected))
        /\ KeyOnList(Char("k")) =>
             ~(EmptyList /\ comps.search_result.selected = Some(0))]_vars

\* the task sent its result and the receiver has taken it
Consumed(ch) == ch.task = "done" /\ ch.value = None

\* the pending search is ready with a failure
FailureReady ==
  /\ IsSome(PendingRx)
  /\ try_recv(PendingChan) = "Ok"
  /\ ~Unwrap(PendingChan.value).ok

Errors(q) == {i \in 1..Len(q) : q[i].type = "Error"}

\* C34: a search request whose result is a failure makes the search-results
\* component emit exactly one Error action over all the Ticks that follow:
\* the Tick that finds the failure emits it and takes the result out of the
\* channel, a result once taken is never there again, the next Tick clears
\* the handle and emits nothing, and no other Tick and no other step emits
\* an Error.
FailureReportedOnce ==
  [][/\ Taking("Tick") =>
          queue' = Tail(queue) \o (IF FailureReady
                                     THEN <<Error("youtube search failed")>>
                                     ELSE <<>>)
     /\ (Taking("Tick") /\ FailureReady) => Consumed(chans'[Unwrap(PendingRx)])
     /\ (Taking("Tick") /\ IsSome(PendingRx) /\ Consumed(PendingChan)) =>
          comps'.search_result.search_rx = None
     /\ \A i \in 1..Len(chans) : Consumed(chans[i]) => Consumed(chans'[i])
     /\ Cardinality(Errors(queue')) > Cardinality(Errors(queue)) => Taking("Tick")]_vars

\* the Tick after the one that reported the failure of the only search has
\* been handled: the handle is cleared and nothing was emitted
FailureReportedWitness ==
  /\ pc = "drain" /\ queue = <<>>
  /\ handled = <<[action |-> Tick, forwarded |-> TRUE]>>
  /\ Len(chans) = 1 /\ Consumed(chans[1]) /\ chans[1].rx_dropped
  /\ PendingRx = None
  /\ comps.search_result.search_result_videos = None

\* what an action waiting in the queue can still cost the pass: an Error is
\* handled in one step; any other action is handled in one step and may
\* enqueue one Error per component and one more
Weight(a) == IF a.type = "Error" THEN 1 ELSE Len(components) + 2

RECURSIVE PassMeasure(_)
PassMeasure(q) == IF q = <<>> THEN 0 ELSE Weight(Head(q)) + PassMeasure(Tail(q))

\* C35: every drain pass terminates: a step of the pass takes the action at
\* the head of the queue and appends only Error actions, handling an Error
\* appends nothing, and so the measure of the queue decreases on every step
\* of the pass.
DrainPassTerminates ==
  [][(pc = "drain" /\ queue # <<>>) =>
       \/ UNCHANGED vars
       \/ /\ Len(queue') >= Len(queue) - 1
          /\ SubSeq(queue', 1, Len(queue) - 1) = Tail(queue)
          /\ \A i \in Len(queue)..Len(queue') : queue'[i].type = "Error"
          /\ Head(queue).type = "Error" => queue' = Tail(queue)
          /\ PassMeasure(queue') < PassMeasure(queue)]_vars

\* a pass made of a Tick and of the Error its poll enqueued has emptied the
\* queue
DrainPassWitness ==
  /\ pc = "drain" /\ queue = <<>>
  /\ Len(handled) = 2
  /\ handled[1].action = Tick
  /\ handled[2].action.type = "Error" /\ handled[2].forwarded

Pops == {"FocusBack", "InputModeOff"}

\* a pop is the next action the drain pass takes
PopAtHead == pc = "drain" /\ queue # <<>> /\ Head(queue).type \in Pops

\* C36: when the key bindings emit no focus-changing action, the focus stack
\* keeps the startup focus at its bottom; a FocusBack or InputModeOff about
\* to be handled comes from the key just delivered to the focused component
\* (Esc on the search-results list, Enter or Esc in the input bar), whose
\* focus lies above the startup focus, so the stack holds at least two
\* elements; and the actions of one key event hold at most one pop.
PopsComeFromFocused ==
  /\ Len(focus_buffer) >= 1 /\ focus_buffer[1] = first_focus
  /\ PopAtHead =>
       /\ Len(focus_buffer) >= 2
       /\ IsSome(delivered.event) /\ Unwrap(delivered.event).type = "Key"
       /\ Unwrap(delivered.focus) = Last(focus_buffer)
       /\ Head(queue).type = "FocusBack" =>
            /\ Last(focus_buffer).scene = DownloadSearchResult
            /\ Unwrap(delivered.event).key = KeyEsc
       /\ Head(queue).type = "InputModeOff" =>
            /\ Last(focus_buffer).scene = InputBar
            /\ Unwrap(delivered.event).key \in {KeyEnter, KeyEsc}
  /\ Cardinality({i \in 1..Len(PassActions) : PassActions[i].type \in Pops}) <= 1

\* Esc on the search-results list, which holds a result and no selection,
\* has brought the focus back to the startup focus
PopToStartupWitness ==
  /\ pc = "drain" /\ queue = <<>>
  /\ handled = <<[action |-> FocusBack, forwarded |-> TRUE]>>
  /\ delivered.focus = Some(Focus("Download", DownloadSearchResult))
  /\ focus_buffer = <<first_focus>>
  /\ IsSome(comps.search_result.search_result_videos)
  /\ comps.search_result.selected = None
====
